---- MODULE Spec2Model ----
(***************************************************************************)
(* A model of the static agent scanner of opensymbolicai_cli (scanner.py), *)
(* of its model-list cache (model_cache.py), of the agent list of the      *)
(* application (app.py) and of the query execution screen                  *)
(* (screens/agent_execution.py).                                           *)
(*                                                                         *)
(* The scanner reads Python files, parses them with ast.parse, and walks   *)
(* the tree.  The model keeps the part of the tree the scanner looks at:   *)
(* expression nodes are records with a field "node" naming the ast class   *)
(* (Name, Attribute, Constant, Call), statements of a class body are       *)
(* records (FunctionDef, AsyncFunctionDef, ClassDef, Assign), and text is  *)
(* a sequence of lines, each line a sequence of tokens.  Python exceptions *)
(* are strings naming the exception class; "None" means no exception.      *)
(***************************************************************************)
EXTENDS Integers, Sequences, FiniteSets, TLC

VARIABLES
    pc,            \* position of the running function
    class_node,    \* the ast.ClassDef given to _extract_decorated_methods
    source_lines,  \* the file's line buffer (source.splitlines())
    item_i,        \* number of items of class_node.body already visited
    methods,       \* the methods list built by _extract_decorated_methods
    file_path,     \* the source file given to the file scan
    manifest_files,\* the files next to it, by name
    class_i,       \* number of ClassDef nodes of the tree already visited
    agents,        \* the agents list built by _extract_agent_info_from_ast
    raised,        \* the exception that left the scan, "None" when none did
    directory,     \* the directory given to the directory scan
    file_i,        \* number of files of directory.rglob("*.py") already seen
    results,       \* what the directory scans made so far returned or raised
    today,         \* date.today(), as a day number
    cache_files,   \* the cache file models_<provider>.json of each provider
    fetch_calls,   \* the calls of fetch_models_for_provider, by thread
    last_save,     \* per provider, what save_cached_models wrote last
    calls_made,    \* number of calls of fetch_models_for_provider so far
    settings,      \* AgentRunnerApp.settings.agents_folder
    folders,       \* the folders on disk and what a scan of each gives
    app_agents,    \* AgentRunnerApp.agents
    selected_agent,\* AgentRunnerApp.selected_agent
    agent_list,    \* the items of the ListView #agent-list
    last_scan,     \* what the most recent _scan_agents found
    opened,        \* the agent the details screen was opened with last
    agent_instance,\* AgentExecutionScreen.agent_instance
    loading,       \* AgentExecutionScreen._loading
    queries,       \* the submitted inputs and the worker of each
    mutation_event,    \* AgentExecutionScreen._mutation_event
    mutation_approved, \* AgentExecutionScreen._mutation_approved
    events,        \* the threading.Event objects that are set
    callbacks,     \* callbacks handed to app.call_from_thread, not yet run
    dialogs,       \* the MutationConfirmScreen dialogs on the screen stack
    mutations      \* the mutations the agent runs asked approval for

cacheVars == <<today, cache_files, fetch_calls, last_save, calls_made>>
appVars == <<settings, folders, app_agents, selected_agent, agent_list,
             last_scan, opened>>
execVars == <<agent_instance, loading, queries, mutation_event,
              mutation_approved, events, callbacks, dialogs, mutations>>
uiVars == <<cacheVars, appVars, execVars>>
scanLocals == <<class_node, source_lines, item_i, methods,
                file_path, manifest_files, class_i, agents, raised,
                directory, file_i, results>>
scannerVars == <<pc, scanLocals>>
vars == <<scannerVars, uiVars>>
dirVars == <<directory, file_i, results>>
methodVars == <<class_node, source_lines, item_i, methods>>
fileVars == <<file_path, manifest_files, class_i, agents, raised>>

(***************************************************************************)
(* Bounds of the model.                                                    *)
(***************************************************************************)
MaxBody == 3         \* statements in a class body
MaxDecorators == 2   \* decorators on one method
MaxClasses == 2      \* class definitions in one file
MaxBases == 2        \* bases of one class
MaxFiles == 3        \* Python files under one directory
MaxSpanBody == 2     \* statements in a class body with laid-out headers
MaxScans == 2        \* directory scans made one after the other

(***************************************************************************)
(* Python values.  A str is a sequence of tokens (the empty string is      *)
(* <<>>), so that text can be split, stripped and joined; identifiers and  *)
(* class names of the ast are atomic.                                      *)
(***************************************************************************)
\* The value of an ast.Constant or of a JSON document: a str, a bool, an
\* int, None, or a list.
StrValue(s) == [ty |-> "str", s |-> s, n |-> 0]
BoolValue(b) == [ty |-> "bool", s |-> <<>>, n |-> IF b THEN 1 ELSE 0]
IntValue(n) == [ty |-> "int", s |-> <<>>, n |-> n]
NoneValue == [ty |-> "NoneType", s |-> <<>>, n |-> 0]
ListValue == [ty |-> "list", s |-> <<>>, n |-> 0]

\* str(int) for the integers the model uses.
IntRepr(n) ==
    CASE n = 0 -> <<"0">> [] n = 1 -> <<"1">> [] n = 2 -> <<"2">>
      [] OTHER -> <<"5">>

\* Python's str(value).
PyStr(v) ==
    CASE v.ty = "str" -> v.s
      [] v.ty = "bool" -> (IF v.n = 1 THEN <<"True">> ELSE <<"False">>)
      [] v.ty = "int" -> IntRepr(v.n)
      [] v.ty = "list" -> <<"[]">>
      [] OTHER -> <<"None">>

\* Python's bool(value): the truth value of a constant.
PyBool(v) ==
    CASE v.ty = "str" -> v.s # <<>>
      [] v.ty = "bool" -> v.n # 0
      [] v.ty = "int" -> v.n # 0
      [] OTHER -> FALSE

(***************************************************************************)
(* Expression nodes.                                                       *)
(***************************************************************************)
Name(id) == [node |-> "Name", id |-> id]
Attribute(value, attr) == [node |-> "Attribute", value |-> value, attr |-> attr]
Constant(v) == [node |-> "Constant", value |-> v]
Call(func, args, keywords) ==
    [node |-> "Call", func |-> func, args |-> args, keywords |-> keywords]
keyword(arg, value) == [arg |-> arg, value |-> value]

IsName(e) == e.node = "Name"
IsAttribute(e) == e.node = "Attribute"
IsConstant(e) == e.node = "Constant"
IsCall(e) == e.node = "Call"

(***************************************************************************)
(* Text.  A line is a sequence of tokens; " " is a whitespace token, and   *)
(* "(", ")", ":" and "->" are tokens of their own, so that a substring     *)
(* test of the code is a test for adjacent tokens.  A string with line     *)
(* breaks is the sequence of its tokens with "\n" tokens between lines.    *)
(***************************************************************************)
Whitespace == {" ", "\n"}

\* `pat in line`: the tokens of pat occur next to each other in line.
Contains(line, pat) ==
    \E k \in 0..(Len(line) - Len(pat)) :
        \A j \in 1..Len(pat) : line[k + j] = pat[j]

\* str.rstrip(): the trailing whitespace removed.
RECURSIVE RStrip(_)
RStrip(s) ==
    IF s # <<>> /\ s[Len(s)] \in Whitespace
    THEN RStrip(SubSeq(s, 1, Len(s) - 1))
    ELSE s

\* str.lstrip(): the leading whitespace removed.
RECURSIVE LStrip(_)
LStrip(s) ==
    IF s # <<>> /\ s[1] \in Whitespace THEN LStrip(Tail(s)) ELSE s

\* str.strip().
Strip(s) == LStrip(RStrip(s))

\* "\n".join(parts).
RECURSIVE JoinLines(_)
JoinLines(parts) ==
    IF parts = <<>> THEN <<>>
    ELSE IF Len(parts) = 1 THEN parts[1]
    ELSE parts[1] \o <<"\n">> \o JoinLines(Tail(parts))

\* lines[start:stop] of Python, with 0-based start and exclusive stop.
Slice(lines, start, stop) ==
    SubSeq(lines, start + 1, IF stop < Len(lines) THEN stop ELSE Len(lines))

Min(a, b) == IF a < b THEN a ELSE b

\* The signature scan looks at no more than this many lines.
SignatureScanLimit == 10

\* The loop of _get_method_signature from 0-based line i up to stop
\* (exclusive): each line is appended right-stripped, and the loop breaks
\* after a line that holds "):" or ") ->".
RECURSIVE SignatureParts(_, _, _)
SignatureParts(lines, i, stop) ==
    IF i >= stop THEN <<>>
    ELSE LET line == lines[i + 1] IN
         <<RStrip(line)>> \o
         (IF Contains(line, <<")", ":">>) \/ Contains(line, <<")", " ", "->">>)
          THEN <<>>
          ELSE SignatureParts(lines, i + 1, stop))

\* _get_method_signature(func_def, source_lines)
GetMethodSignature(func_def, lines) ==
    LET start_line == func_def.lineno - 1 IN
    Strip(JoinLines(SignatureParts(lines, start_line,
                                   Min(start_line + SignatureScanLimit, Len(lines)))))

\* GetMethodSource with each line right-stripped before the join.
GetMethodSourceStripped(func_def, lines) ==
    LET start_line == func_def.lineno - 1
        end_line == IF func_def.end_lineno # 0 THEN func_def.end_lineno
                    ELSE start_line + 1
        taken == Slice(lines, start_line, end_line)
    IN JoinLines([k \in 1..Len(taken) |-> RStrip(taken[k])])

\* _get_method_source(func_def, source_lines); end_lineno = 0 stands for an
\* end_lineno of None.
GetMethodSource(func_def, lines) ==
    LET start_line == func_def.lineno - 1
        end_line == IF func_def.end_lineno # 0 THEN func_def.end_lineno
                    ELSE start_line + 1
    IN JoinLines(Slice(lines, start_line, end_line))

(***************************************************************************)
(* Statements of a class body.  docstring is what ast.get_docstring        *)
(* returns for the node: present = FALSE stands for None.  lineno is the   *)
(* line of the def keyword, end_lineno the last line of the statement.     *)
(* header says how the declaration is laid out in the file, and end        *)
(* whether the parser reports an end line (end_lineno is None otherwise).  *)
(* body holds the statements after the docstring; none stands for `pass`.  *)
(***************************************************************************)
NoDocstring == [present |-> FALSE, text |-> <<>>]
Docstring(text) == [present |-> TRUE, text |-> text]

Stmt(node, name, decorator_list, docstring) ==
    [node |-> node, name |-> name, decorator_list |-> decorator_list,
     docstring |-> docstring, lineno |-> 0, end_lineno |-> 0,
     header |-> "plain", end |-> "reported", body |-> <<>>]

\* An expression statement, with the expression it evaluates.
Expr(value) == [node |-> "Expr", value |-> value]

\* ast.get_docstring(node) or ""
GetDocstringOrEmpty(node) ==
    IF node.docstring.present THEN node.docstring.text ELSE <<>>

(***************************************************************************)
(* The file text of a statement, as the parser saw it: the decorator       *)
(* lines, the def line, the docstring line and the body.                   *)
(***************************************************************************)
DecoratorLine(d) ==
    <<" ", "@">> \o
    (CASE IsName(d) -> <<d.id>>
       [] IsAttribute(d) -> <<d.value.id, ".", d.attr>>
       [] IsCall(d) /\ IsName(d.func) -> <<d.func.id, "(", "...", ")">>
       [] OTHER -> <<d.func.value.id, ".", d.func.attr, "(", "...", ")">>)

DecoratorLines(ds) == [k \in 1..Len(ds) |-> DecoratorLine(ds[k])]

\* The lines of a parameter list written one parameter to a line.
ParameterLines(n) == [k \in 1..n |-> <<" ", " ", "p", ",">>]

\* The lines of the declaration of a method, from the def line to the line
\* with the colon that opens the body:
\*   plain      def m(self):
\*   commented  def m(self):  # c   (and trailing whitespace)
\*   annotated  def m(self) -> int:
\*   tight      def m(self)->int:
\*   multiline  def m( / self, / ) -> int:
\*   wrapped    def m(self) -> dict[ / str, / ]:
\*   long       def m( / ten parameter lines / ):
HeaderLines(s) ==
    CASE s.header = "commented" ->
            << <<" ", "def", " ", s.name, "(", "self", ")", ":", " ", "# c", " ">> >>
      [] s.header = "annotated" ->
            << <<" ", "def", " ", s.name, "(", "self", ")", " ", "->", " ", "int", ":">> >>
      [] s.header = "tight" ->
            << <<" ", "def", " ", s.name, "(", "self", ")", "->", "int", ":">> >>
      [] s.header = "multiline" ->
            << <<" ", "def", " ", s.name, "(">>,
               <<" ", " ", "self", ",", " ">>,
               <<" ", ")", " ", "->", " ", "int", ":">> >>
      [] s.header = "wrapped" ->
            << <<" ", "def", " ", s.name, "(", "self", ")", " ", "->", " ", "dict", "[">>,
               <<" ", " ", "str", ",">>,
               <<" ", "]", ":">> >>
      [] s.header = "long" ->
            << <<" ", "def", " ", s.name, "(">> >>
            \o ParameterLines(SignatureScanLimit)
            \o << <<" ", ")", ":">> >>
      [] OTHER ->
            << <<" ", "def", " ", s.name, "(", "self", ")", ":">> >>

\* The line `class <name>(...):` that opens a class.
ClassLine(name) == <<"class", " ", name, "(", "...", ")", ":">>

\* The lines between the def line and the statements of a method body.
DocstringLines(s) ==
    IF s.docstring.present
    THEN << <<" ", " ", "QQQ">> \o s.docstring.text \o <<"QQQ">> >>
    ELSE <<>>

RECURSIVE BodyLines(_)

StmtLines(s) ==
    CASE s.node = "FunctionDef" ->
            DecoratorLines(s.decorator_list)
            \o HeaderLines(s)
            \o DocstringLines(s)
            \o (IF s.body = <<>> THEN << <<" ", " ", "pass">> >>
                ELSE BodyLines(s.body))
      [] s.node = "ClassDef" ->
            <<ClassLine(s.name)>>
            \o (IF s.body = <<>> THEN << <<" ", " ", "pass">> >>
                ELSE BodyLines(s.body))
      [] s.node = "Expr" -> << <<" ", " ", "call", "(", "...", ")">> >>
      [] s.node = "AsyncFunctionDef" ->
            DecoratorLines(s.decorator_list)
            \o << <<" ", "async", " ", "def", " ", s.name, "(", "self", ")", ":">> >>
            \o << <<" ", " ", "pass">> >>
      [] OTHER -> << <<" ", s.name, " ", "=", " ", "1">> >>

\* The statements of a body placed in the file from line `first` on: each
\* gets the lineno and end_lineno the parser reports for it.
RECURSIVE PlaceBody(_, _)
PlaceBody(stmts, first) ==
    IF stmts = <<>> THEN <<>>
    ELSE LET s == Head(stmts)
             n == Len(StmtLines(s))
             def == first + Len(s.decorator_list)
         IN << IF s.node = "Expr" THEN s
               ELSE IF s.node = "ClassDef"
               THEN [s EXCEPT !.body = PlaceBody(s.body, first + 1)]
               ELSE [s EXCEPT
                       !.lineno = def,
                       !.end_lineno = IF s.end = "reported" THEN first + n - 1
                                      ELSE 0,
                       !.body = PlaceBody(s.body, def + Len(HeaderLines(s))
                                                      + Len(DocstringLines(s)))] >>
            \o PlaceBody(Tail(stmts), first + n)

BodyLines(stmts) ==
    IF stmts = <<>> THEN <<>>
    ELSE StmtLines(Head(stmts)) \o BodyLines(Tail(stmts))

(***************************************************************************)
(* _extract_decorated_methods                                              *)
(***************************************************************************)
\* The values set before the decorator loop.
Untagged ==
    [method_type |-> "None", read_only |-> FALSE, intent |-> <<>>,
     expanded_intent |-> <<>>]

\* The loop over the keywords of a primitive(...) call.
RECURSIVE ReadOnlyKeywords(_, _)
ReadOnlyKeywords(keywords, read_only) ==
    IF keywords = <<>> THEN read_only
    ELSE LET kw == Head(keywords) IN
         ReadOnlyKeywords(Tail(keywords),
             IF kw.arg = "read_only" /\ IsConstant(kw.value)
             THEN PyBool(kw.value.value)
             ELSE read_only)

\* The loop over the keywords of a decomposition(...) call.
RECURSIVE IntentKeywords(_, _)
IntentKeywords(keywords, tag) ==
    IF keywords = <<>> THEN tag
    ELSE LET kw == Head(keywords) IN
         IntentKeywords(Tail(keywords),
             IF kw.arg = "intent" /\ IsConstant(kw.value)
             THEN [tag EXCEPT !.intent = PyStr(kw.value.value)]
             ELSE IF kw.arg = "expanded_intent" /\ IsConstant(kw.value)
             THEN [tag EXCEPT !.expanded_intent = PyStr(kw.value.value)]
             ELSE tag)

\* PrimitiveCall with the read_only keyword left unread.
PrimitiveCallFlagUnread(tag, decorator) ==
    [tag EXCEPT !.method_type = "primitive"]

\* A primitive(...) call decorator.
PrimitiveCall(tag, decorator) ==
    [tag EXCEPT !.method_type = "primitive",
                !.read_only = ReadOnlyKeywords(decorator.keywords, tag.read_only)]

\* DecompositionCall with the positional argument read after the keywords.
DecompositionCallPositionalLast(tag, decorator) ==
    LET named == IntentKeywords(decorator.keywords,
                                [tag EXCEPT !.method_type = "decomposition"])
    IN IF Len(decorator.args) >= 1 /\ IsConstant(decorator.args[1])
       THEN [named EXCEPT !.intent = PyStr(decorator.args[1].value)]
       ELSE named

\* A decomposition(...) call decorator.
DecompositionCall(tag, decorator) ==
    LET positional ==
            IF Len(decorator.args) >= 1 /\ IsConstant(decorator.args[1])
            THEN [tag EXCEPT !.intent = PyStr(decorator.args[1].value)]
            ELSE tag
    IN IntentKeywords(decorator.keywords,
                      [positional EXCEPT !.method_type = "decomposition"])

\* A bare name decorator.
NameDecorator(tag, decorator) ==
    IF decorator.id = "primitive"
    THEN [tag EXCEPT !.method_type = "primitive"]
    ELSE tag

\* One iteration of the loop over item.decorator_list.
ApplyDecorator(tag, decorator) ==
    IF IsName(decorator) THEN NameDecorator(tag, decorator)
    ELSE IF IsCall(decorator) /\ IsName(decorator.func)
    THEN IF decorator.func.id = "primitive" THEN PrimitiveCall(tag, decorator)
         ELSE IF decorator.func.id = "decomposition"
         THEN DecompositionCall(tag, decorator)
         ELSE tag
    ELSE tag

\* The loop over item.decorator_list.
RECURSIVE ApplyDecorators(_, _)
ApplyDecorators(decorator_list, tag) ==
    IF decorator_list = <<>> THEN tag
    ELSE ApplyDecorators(Tail(decorator_list),
                         ApplyDecorator(tag, Head(decorator_list)))

ClassifyMethod(item) == ApplyDecorators(item.decorator_list, Untagged)

\* IsTagged without the test.
IsTaggedAlways(tag) == TRUE

\* `if method_type:`
IsTagged(tag) == tag.method_type # "None" /\ tag.method_type # ""

\* The DiscoveredMethod appended for a tagged item.
DiscoveredMethod(item, tag, lines) ==
    [name |-> item.name,
     method_type |-> tag.method_type,
     docstring |-> GetDocstringOrEmpty(item),
     signature |-> GetMethodSignature(item, lines),
     source |-> GetMethodSource(item, lines),
     line_number |-> item.lineno,
     read_only |-> tag.read_only,
     intent |-> tag.intent,
     expanded_intent |-> tag.expanded_intent]

\* `isinstance(item, ast.FunctionDef)`
IsFunctionDef(item) == item.node = "FunctionDef"

\* VisitItem with the method put at the front of the list.
VisitItemAtFront(found, item, lines) ==
    IF ~IsFunctionDef(item) THEN found
    ELSE LET tag == ApplyDecorators(item.decorator_list, Untagged) IN
         IF tag.method_type # "None"
         THEN <<DiscoveredMethod(item, tag, lines)>> \o found
         ELSE found

\* The methods list after one more item of the class body.
VisitItem(found, item, lines) ==
    IF ~IsFunctionDef(item) THEN found
    ELSE LET tag == ClassifyMethod(item) IN
         IF IsTagged(tag) THEN Append(found, DiscoveredMethod(item, tag, lines))
         ELSE found

\* _extract_decorated_methods(class_node, source_lines), as the file scan
\* calls it.
RECURSIVE VisitItems(_, _, _)
VisitItems(found, body, lines) ==
    IF body = <<>> THEN found
    ELSE VisitItems(VisitItem(found, Head(body), lines), Tail(body), lines)

ExtractDecoratedMethods(node, lines) == VisitItems(<<>>, node.body, lines)

(***************************************************************************)
(* Class definitions.  calls holds the Call nodes of the class's subtree   *)
(* in ast.walk order, the decorators of its methods left out (no decorator *)
(* of the model is a call of load_manifest or of an __init__ attribute).   *)
(***************************************************************************)
ClassDef(name, bases, docstring, body, calls) ==
    [node |-> "ClassDef", name |-> name, bases |-> bases,
     docstring |-> docstring, body |-> body, calls |-> calls]

(***************************************************************************)
(* The class bodies the method extraction is run on.                       *)
(***************************************************************************)
True == Constant(BoolValue(TRUE))
False == Constant(BoolValue(FALSE))

\* Values given to read_only: booleans, other literals, a variable.
ReadOnlyValues ==
    {True, False, Constant(IntValue(1)), Constant(NoneValue),
     Constant(StrValue(<<"no">>)), Name("flag")}

\* ast.parse accepts a keyword given twice (only compiling rejects it).
PrimitiveCalls ==
    {Call(Name("primitive"), <<>>, <<>>)}
    \cup {Call(Name("primitive"), <<>>, <<keyword("read_only", v)>>) :
            v \in ReadOnlyValues}
    \cup {Call(Name("primitive"), <<>>,
               <<keyword("read_only", True), keyword("read_only", False)>>),
          Call(Name("primitive"), <<>>,
               <<keyword("read_only", True), keyword("read_only", Name("flag"))>>)}

IntentArgs ==
    {<<>>, <<Constant(StrValue(<<"a">>))>>, <<Name("x")>>, <<Constant(IntValue(2))>>}
IntentKeywordValues == {Constant(StrValue(<<"b">>)), Name("y")}
ExpandedKeywordValues == {Constant(StrValue(<<"c">>)), Name("y")}

DecompositionKeywords ==
    {<<>>}
    \cup {<<keyword("intent", v)>> : v \in IntentKeywordValues}
    \cup {<<keyword("expanded_intent", w)>> : w \in ExpandedKeywordValues}
    \cup {<<keyword("intent", v), keyword("expanded_intent", w)>> :
            v \in IntentKeywordValues, w \in ExpandedKeywordValues}
    \cup {<<keyword("intent", Constant(StrValue(<<"b">>))),
            keyword("intent", Constant(StrValue(<<"d">>)))>>}

DecompositionCalls ==
    {Call(Name("decomposition"), a, k) :
        a \in IntentArgs, k \in DecompositionKeywords}

\* Decorators that are no call of a bare capability name.
OtherDecorators ==
    {Name("primitive"), Name("decomposition"), Name("staticmethod"),
     Attribute(Name("core"), "primitive"),
     Call(Name("lru_cache"), <<>>, <<>>),
     Call(Attribute(Name("core"), "decomposition"),
          <<Constant(StrValue(<<"a">>))>>, <<>>)}

Decorators == PrimitiveCalls \cup DecompositionCalls \cup OtherDecorators

SeqsUpTo(S, n) == UNION {[1..k -> S] : k \in 0..n}

DecoratorLists == SeqsUpTo(Decorators, MaxDecorators)

\* The name of the statement at position k of a class body.
NameAt(k) ==
    CASE k = 1 -> "m1" [] k = 2 -> "m2" [] k = 3 -> "m3" [] k = 4 -> "m4"
      [] OTHER -> "m5"

\* Statement shapes of the bodies with several statements.
BodyShapes ==
    {Stmt("FunctionDef", "", ds, NoDocstring) :
        ds \in {<<>>, <<Name("primitive")>>, <<Name("decomposition")>>,
                <<Name("staticmethod")>>,
                <<Call(Name("primitive"), <<>>, <<keyword("read_only", True)>>)>>,
                <<Call(Name("decomposition"), <<Constant(StrValue(<<"a">>))>>, <<>>)>>}}
    \cup {Stmt("FunctionDef", "", <<Name("primitive")>>, Docstring(<<"Doc">>)),
          Stmt("AsyncFunctionDef", "", <<Name("primitive")>>, NoDocstring),
          Stmt("Assign", "", <<>>, NoDocstring)}

Named(shapes) == [k \in 1..Len(shapes) |-> [shapes[k] EXCEPT !.name = NameAt(k)]]

\* How the declaration of a method is laid out.
HeaderKinds ==
    {"plain", "commented", "annotated", "tight", "multiline", "wrapped", "long"}

\* Tagged methods with each layout, one the parser reports no end line
\* for, and statements that are no methods.
SpanShapes ==
    {[Stmt("FunctionDef", "", <<Name("primitive")>>, NoDocstring)
        EXCEPT !.header = h] : h \in HeaderKinds}
    \cup {[Stmt("FunctionDef", "", <<Name("staticmethod"), Name("primitive")>>,
                Docstring(<<"Doc">>)) EXCEPT !.header = "multiline"],
          [Stmt("FunctionDef", "",
                <<Call(Name("decomposition"), <<Constant(StrValue(<<"a">>))>>, <<>>)>>,
                NoDocstring) EXCEPT !.end = "unreported"],
          Stmt("FunctionDef", "", <<>>, NoDocstring),
          Stmt("Assign", "", <<>>, NoDocstring)}

MethodBodies ==
    {<<Stmt("FunctionDef", "m1", ds, NoDocstring)>> : ds \in DecoratorLists}
    \cup {Named(b) : b \in SeqsUpTo(BodyShapes, MaxBody)}
    \cup {Named(b) : b \in SeqsUpTo(SpanShapes, MaxSpanBody)}

(***************************************************************************)
(* The method extraction, one statement of the class body at a time.       *)
(***************************************************************************)
\* The variables of the directory scan while none runs.
DirIdle ==
    /\ directory = [kind |-> "none"]
    /\ file_i = 0
    /\ results = <<>>

\* The variables of the model-list cache, of the application and of the
\* execution screen while the scanner runs by itself.
CacheIdle ==
    /\ today = 0
    /\ cache_files = <<>>
    /\ fetch_calls = <<>>
    /\ last_save = <<>>
    /\ calls_made = 0

AppIdle ==
    /\ settings = "None"
    /\ folders = <<>>
    /\ app_agents = <<>>
    /\ selected_agent = <<>>
    /\ agent_list = <<>>
    /\ last_scan = <<>>
    /\ opened = <<>>

ExecIdle ==
    /\ agent_instance = "None"
    /\ loading = FALSE
    /\ queries = <<>>
    /\ mutation_event = 0
    /\ mutation_approved = FALSE
    /\ events = {}
    /\ callbacks = <<>>
    /\ dialogs = <<>>
    /\ mutations = <<>>

UiIdle == CacheIdle /\ AppIdle /\ ExecIdle

\* The variables of the file scan while none runs.
FileIdle ==
    /\ file_path = [kind |-> "none"]
    /\ manifest_files = <<>>
    /\ class_i = 0
    /\ agents = <<>>
    /\ raised = "None"

InitMethods ==
    \E stmts \in MethodBodies :
        /\ class_node = ClassDef("Agent", <<Name("PlanExecute")>>, NoDocstring,
                                 PlaceBody(stmts, 2), <<>>)
        /\ source_lines = <<ClassLine("Agent")>> \o BodyLines(stmts)
        /\ item_i = 0
        /\ methods = <<>>
        /\ pc = "extract_methods"
        /\ FileIdle
        /\ DirIdle
        /\ UiIdle

\* One iteration of `for item in class_node.body`.
MethodsVisit ==
    /\ pc = "extract_methods"
    /\ UNCHANGED uiVars
    /\ item_i < Len(class_node.body)
    /\ methods' = VisitItem(methods, class_node.body[item_i + 1], source_lines)
    /\ item_i' = item_i + 1
    /\ UNCHANGED <<pc, class_node, source_lines, fileVars, dirVars>>

\* `return methods`
MethodsReturn ==
    /\ pc = "extract_methods"
    /\ UNCHANGED uiVars
    /\ item_i = Len(class_node.body)
    /\ pc' = "methods_returned"
    /\ UNCHANGED <<methodVars, fileVars, dirVars>>

NextMethods == MethodsVisit \/ MethodsReturn

SpecMethods == InitMethods /\ [][NextMethods]_vars

(***************************************************************************)
(* Properties of the method extraction.                                    *)
(***************************************************************************)
CapabilityNames == {"primitive", "decomposition"}

\* The name a marker carries: of @name and of @name(...).
TagName(d) ==
    IF IsName(d) THEN d.id
    ELSE IF IsCall(d) /\ IsName(d.func) THEN d.func.id
    ELSE ""

\* The positions of the capability tags among the decorators of a method.
TagPositions(item) ==
    {j \in 1..Len(item.decorator_list) :
        TagName(item.decorator_list[j]) \in CapabilityNames}

HasCapabilityTag(item) == TagPositions(item) # {}

\* The methods found for the statement at position k of the class body.
FoundFor(k) ==
    {i \in 1..Len(methods) :
        /\ methods[i].line_number = class_node.body[k].lineno
        /\ methods[i].name = class_node.body[k].name}

MethodsReturned == pc = "methods_returned"

\* C6: every method in the list is of type 'primitive' or 'decomposition'
\* and is a method of the class body that carries a capability tag; a
\* method without one never appears.
C6_OnlyTaggedMethods ==
    /\ \A i \in 1..Len(methods) :
        /\ methods[i].method_type \in CapabilityNames
        /\ \E k \in 1..item_i :
            /\ i \in FoundFor(k)
            /\ IsFunctionDef(class_node.body[k])
            /\ HasCapabilityTag(class_node.body[k])
    /\ \A k \in 1..Len(class_node.body) :
        ~HasCapabilityTag(class_node.body[k]) => FoundFor(k) = {}

C6_Witness ==
    /\ MethodsReturned
    /\ methods # <<>>
    /\ \E k \in 1..Len(class_node.body) :
        /\ IsFunctionDef(class_node.body[k])
        /\ ~HasCapabilityTag(class_node.body[k])

\* C7: a method whose capability tag is decomposition, bare or with
\* arguments, is in the list with method_type 'decomposition'.
C7_DecompositionBareOrCall ==
    MethodsReturned =>
        \A k \in 1..Len(class_node.body) :
            LET item == class_node.body[k] IN
            (/\ IsFunctionDef(item)
             /\ HasCapabilityTag(item)
             /\ \A j \in TagPositions(item) :
                    TagName(item.decorator_list[j]) = "decomposition")
            => \E i \in FoundFor(k) : methods[i].method_type = "decomposition"

\* A method with one capability tag, which is primitive.
OnePrimitiveTag(item) ==
    /\ IsFunctionDef(item)
    /\ Cardinality(TagPositions(item)) = 1
    /\ \A j \in TagPositions(item) : TagName(item.decorator_list[j]) = "primitive"

TheTag(item) == item.decorator_list[CHOOSE j \in TagPositions(item) : TRUE]

\* The literal values Python takes as false.
FalsyValues == {BoolValue(FALSE), NoneValue, IntValue(0), StrValue(<<>>)}

\* The positions of the keywords of a call that give `arg` a literal.
LiteralPositions(call, arg) ==
    {j \in 1..Len(call.keywords) :
        call.keywords[j].arg = arg /\ IsConstant(call.keywords[j].value)}

\* The literal a call gives under the keyword `arg`: the last one, should
\* the keyword be written more than once.
LiteralGiven(call, arg) ==
    call.keywords[CHOOSE j \in LiteralPositions(call, arg) :
                     \A n \in LiteralPositions(call, arg) : n <= j].value.value

DecompositionCallPositions(item) ==
    {j \in 1..Len(item.decorator_list) :
        /\ IsCall(item.decorator_list[j])
        /\ TagName(item.decorator_list[j]) = "decomposition"}

TheDecomposition(item) ==
    item.decorator_list[CHOOSE j \in DecompositionCallPositions(item) : TRUE]

\* The text of the literal a call gives under a keyword, or `otherwise`
\* when it gives none.
LiteralKeyword(call, arg, otherwise) ==
    IF LiteralPositions(call, arg) # {}
    THEN PyStr(LiteralGiven(call, arg))
    ELSE otherwise

\* C9: intent is the literal keyword intent, otherwise the first positional
\* argument when it is a literal, otherwise empty; expanded_intent is the
\* literal keyword expanded_intent, otherwise empty.
C9_IntentResolution ==
    MethodsReturned =>
        \A k \in 1..Len(class_node.body) :
            LET item == class_node.body[k] IN
            (IsFunctionDef(item) /\ Cardinality(DecompositionCallPositions(item)) = 1)
            => LET d == TheDecomposition(item) IN
               /\ FoundFor(k) # {}
               /\ \A i \in FoundFor(k) :
                   /\ methods[i].intent =
                        LiteralKeyword(d, "intent",
                            IF Len(d.args) >= 1 /\ IsConstant(d.args[1])
                            THEN PyStr(d.args[1].value)
                            ELSE <<>>)
                   /\ methods[i].expanded_intent =
                        LiteralKeyword(d, "expanded_intent", <<>>)

C9_Witness ==
    /\ MethodsReturned
    /\ \E k \in 1..Len(class_node.body) :
        /\ DecompositionCallPositions(class_node.body[k]) # {}
        /\ TheDecomposition(class_node.body[k]).args = <<Constant(StrValue(<<"a">>))>>
        /\ TheDecomposition(class_node.body[k]).keywords
             = <<keyword("intent", Constant(StrValue(<<"b">>))),
                 keyword("expanded_intent", Name("y"))>>
        /\ \E i \in FoundFor(k) :
            methods[i].intent = <<"b">> /\ methods[i].expanded_intent = <<>>

\* C10: the list holds the classified methods of the class body in
\* declaration order, whatever their kinds.
C10_DeclarationOrder ==
    MethodsReturned =>
        /\ \A i, j \in 1..Len(methods) :
            i < j => methods[i].line_number < methods[j].line_number
        /\ {methods[i].line_number : i \in 1..Len(methods)}
             = {class_node.body[k].lineno :
                   k \in {n \in 1..Len(class_node.body) :
                            /\ IsFunctionDef(class_node.body[n])
                            /\ IsTagged(ClassifyMethod(class_node.body[n]))}}

C10_Witness ==
    /\ MethodsReturned
    /\ Len(methods) = 3
    /\ [i \in 1..3 |-> methods[i].name] = <<"m1", "m2", "m3">>
    /\ [i \in 1..3 |-> methods[i].method_type]
         = <<"primitive", "decomposition", "primitive">>

(***************************************************************************)
(* Exceptions.  An except clause handles an exception when one of the      *)
(* classes it names is among the exception's classes.                      *)
(***************************************************************************)
Mro(exc) ==
    CASE exc = "SyntaxError" -> {"SyntaxError", "Exception"}
      [] exc \in {"FileNotFoundError", "PermissionError", "IsADirectoryError"} ->
            {exc, "OSError", "Exception"}
      [] exc = "UnicodeDecodeError" ->
            {"UnicodeDecodeError", "UnicodeError", "ValueError", "Exception"}
      [] exc = "JSONDecodeError" -> {"JSONDecodeError", "ValueError", "Exception"}
      [] exc = "ValidationError" -> {"ValidationError", "ValueError", "Exception"}
      [] exc = "AttributeError" -> {"AttributeError", "Exception"}
      [] OTHER -> {exc}

Handles(classes, exc) == Mro(exc) \cap classes # {}

\* ParseHandlers without SyntaxError.
ParseHandlersOSErrorOnly == {"OSError"}

\* `except (SyntaxError, OSError)` of the file scan.
ParseHandlers == {"SyntaxError", "OSError"}

\* `except (json.JSONDecodeError, OSError)` of the manifest loader.
ManifestHandlers == {"JSONDecodeError", "OSError"}

(***************************************************************************)
(* Files.  A source file is a regular file, a directory or missing; its    *)
(* content is text that parses, text with a syntax error, bytes that are   *)
(* no UTF-8, or it cannot be read.  classes are the ClassDef nodes of its  *)
(* tree in ast.walk order; tree holds the statements of the module when    *)
(* the classes are found by walking them.                                  *)
(***************************************************************************)
SourceFile(path, stem, kind, content, classes, lines) ==
    [path |-> path, stem |-> stem, kind |-> kind, content |-> content,
     classes |-> classes, lines |-> lines, tree |-> <<>>]

\* The exception of file_path.read_text(encoding="utf-8") followed by
\* ast.parse(source), "None" when both succeed.
ReadAndParse(file) ==
    IF file.kind = "directory" THEN "IsADirectoryError"
    ELSE IF file.kind = "missing" THEN "FileNotFoundError"
    ELSE IF file.content = "unreadable" THEN "PermissionError"
    ELSE IF file.content = "undecodable" THEN "UnicodeDecodeError"
    ELSE IF file.content = "invalid syntax" THEN "SyntaxError"
    ELSE "None"

\* A file next to the source file: missing, a directory, unreadable, bytes
\* that are no UTF-8, text that is no JSON, or a JSON document.
ManifestFile(kind, data) == [kind |-> kind, data |-> data]
MissingFile == ManifestFile("missing", NoneValue)

\* A JSON object with the keys name, description and version, each present
\* or not.
Absent == [has |-> FALSE, value |-> NoneValue]
Present(v) == [has |-> TRUE, value |-> v]
JsonObject(n, d, v) ==
    [ty |-> "dict", s |-> <<>>, n |-> 0,
     entries |-> [name |-> n, description |-> d, version |-> v]]

\* data.get(key, "")
DictGet(data, key) ==
    IF data.entries[key].has THEN data.entries[key].value ELSE StrValue(<<>>)

EmptyMetadata == [name |-> <<>>, description |-> <<>>, version |-> <<>>]

\* The file at file_path.parent / manifest_name.
ManifestAt(files, manifest_name) ==
    IF manifest_name = <<>> THEN ManifestFile("directory", NoneValue)
    ELSE IF manifest_name \in DOMAIN files THEN files[manifest_name]
    ELSE MissingFile

\* The exception raised inside the try block of the manifest loader,
\* "None" when the block returns.
ManifestTry(manifest) ==
    IF manifest.kind = "directory" THEN "IsADirectoryError"
    ELSE IF manifest.kind = "unreadable" THEN "PermissionError"
    ELSE IF manifest.kind = "undecodable" THEN "UnicodeDecodeError"
    ELSE IF manifest.kind = "invalid json" THEN "JSONDecodeError"
    ELSE IF manifest.data.ty # "dict" THEN "AttributeError"
    ELSE IF \E key \in {"name", "description", "version"} :
                DictGet(manifest.data, key).ty # "str"
    THEN "ValidationError"
    ELSE "None"

\* _load_manifest_metadata(file_path, manifest_name): the exception that
\* leaves it ("None" when it returns) and the ManifestMetadata returned.
\* manifest_name is a str value or None.
LoadManifestMetadata(file, manifest_name, files) ==
    LET name == IF manifest_name = NoneValue
                THEN <<file.stem>> \o <<".manifest.json">>
                ELSE manifest_name.s
        manifest == ManifestAt(files, name)
        exc == ManifestTry(manifest)
    IN IF manifest.kind = "missing"
       THEN [raised |-> "None", meta |-> EmptyMetadata]
       ELSE IF exc = "None"
       THEN [raised |-> "None",
             meta |-> [name |-> DictGet(manifest.data, "name").s,
                       description |-> DictGet(manifest.data, "description").s,
                       version |-> DictGet(manifest.data, "version").s]]
       ELSE IF Handles(ManifestHandlers, exc)
       THEN [raised |-> "None", meta |-> EmptyMetadata]
       ELSE [raised |-> exc, meta |-> EmptyMetadata]

(***************************************************************************)
(* ast.walk: the nodes of a subtree, breadth first, the children of a node *)
(* in the order of its fields.                                             *)
(***************************************************************************)
NodeKind(n) == IF "node" \in DOMAIN n THEN n.node ELSE "keyword"

\* ast.iter_child_nodes(n)
Children(n) ==
    CASE NodeKind(n) = "ClassDef" -> n.bases \o n.body
      [] NodeKind(n) \in {"FunctionDef", "AsyncFunctionDef"} ->
            n.body \o n.decorator_list
      [] NodeKind(n) = "Expr" -> <<n.value>>
      [] NodeKind(n) = "Call" -> <<n.func>> \o n.args \o n.keywords
      [] NodeKind(n) = "Attribute" -> <<n.value>>
      [] NodeKind(n) = "keyword" -> <<n.value>>
      [] OTHER -> <<>>

\* ast.walk from the nodes of `todo`: the first is taken off the queue and
\* its children are put at the end.
RECURSIVE Walk(_)
Walk(todo) ==
    IF todo = <<>> THEN <<>>
    ELSE <<Head(todo)>> \o Walk(Tail(todo) \o Children(Head(todo)))

IsCallNode(n) == NodeKind(n) = "Call"
IsClassDef(n) == NodeKind(n) = "ClassDef"

\* A class with the Call nodes of ast.walk(class_node) as its calls.
WithCalls(class) == [class EXCEPT !.calls = SelectSeq(Walk(<<class>>), IsCallNode)]

\* WalkClasses for the statements of the module alone.
TopLevelClasses(body) ==
    LET found == SelectSeq(body, IsClassDef)
    IN [k \in 1..Len(found) |-> WithCalls(found[k])]

\* The ClassDef nodes of ast.walk(tree), tree being the module with this
\* body.
WalkClasses(body) ==
    LET found == SelectSeq(Walk(body), IsClassDef)
    IN [k \in 1..Len(found) |-> WithCalls(found[k])]

(***************************************************************************)
(* _extract_manifest_filename                                              *)
(***************************************************************************)
\* ast.walk(class_node), the Call nodes of it.
WalkCalls(node) == node.calls

\* The loop over the keywords of a load_manifest call: the first literal
\* manifest_name, None when there is none.
RECURSIVE ManifestNameKeyword(_)
ManifestNameKeyword(keywords) ==
    IF keywords = <<>> THEN NoneValue
    ELSE LET kw == Head(keywords) IN
         IF kw.arg = "manifest_name" /\ IsConstant(kw.value)
         THEN StrValue(PyStr(kw.value.value))
         ELSE ManifestNameKeyword(Tail(keywords))

\* ManifestNameOfCall without the look at the second positional argument.
ManifestNameOfCallKeywordOnly(call) == ManifestNameKeyword(call.keywords)

\* What the first load_manifest call names.
ManifestNameOfCall(call) ==
    IF Len(call.args) >= 2 /\ IsConstant(call.args[2])
    THEN StrValue(PyStr(call.args[2].value))
    ELSE ManifestNameKeyword(call.keywords)

\* ManifestFilenameIn with load_manifest reached through an attribute taken
\* as well.
RECURSIVE ManifestFilenameInQualified(_)
ManifestFilenameInQualified(calls) ==
    IF calls = <<>> THEN StrValue(<<>>)
    ELSE IF \/ IsName(Head(calls).func) /\ Head(calls).func.id = "load_manifest"
            \/ IsAttribute(Head(calls).func) /\ Head(calls).func.attr = "load_manifest"
    THEN ManifestNameOfCall(Head(calls))
    ELSE ManifestFilenameInQualified(Tail(calls))

\* ManifestFilenameIn with the last call of the bare name taken.
RECURSIVE ManifestFilenameInLast(_)
ManifestFilenameInLast(calls) ==
    IF calls = <<>> THEN StrValue(<<>>)
    ELSE IF /\ IsName(calls[Len(calls)].func)
            /\ calls[Len(calls)].func.id = "load_manifest"
    THEN ManifestNameOfCall(calls[Len(calls)])
    ELSE ManifestFilenameInLast(SubSeq(calls, 1, Len(calls) - 1))

\* The walk for a call of the bare name load_manifest; "" when there is
\* none.
RECURSIVE ManifestFilenameIn(_)
ManifestFilenameIn(calls) ==
    IF calls = <<>> THEN StrValue(<<>>)
    ELSE IF IsName(Head(calls).func) /\ Head(calls).func.id = "load_manifest"
    THEN ManifestNameOfCall(Head(calls))
    ELSE ManifestFilenameIn(Tail(calls))

ExtractManifestFilename(node) == ManifestFilenameIn(WalkCalls(node))

(***************************************************************************)
(* _extract_agent_info_from_ast: one class                                 *)
(***************************************************************************)
ValidBaseNames == {"PlanExecute", "Planner"}

\* BaseClassName without the break: the last base that matches.
RECURSIVE BaseClassNameLast(_)
BaseClassNameLast(bases) ==
    IF bases = <<>> THEN "None"
    ELSE LET base == bases[Len(bases)] IN
         IF IsName(base) /\ base.id \in ValidBaseNames THEN base.id
         ELSE IF IsAttribute(base) /\ base.attr \in ValidBaseNames THEN base.attr
         ELSE BaseClassNameLast(SubSeq(bases, 1, Len(bases) - 1))

\* The loop over class_node.bases: the name of the first base that
\* matches, "None" when none does.
RECURSIVE BaseClassName(_)
BaseClassName(bases) ==
    IF bases = <<>> THEN "None"
    ELSE LET base == Head(bases) IN
         IF IsName(base) /\ base.id \in ValidBaseNames THEN base.id
         ELSE IF IsAttribute(base) /\ base.attr \in ValidBaseNames THEN base.attr
         ELSE BaseClassName(Tail(bases))

\* The loop over the keywords of an __init__ call.
RECURSIVE InitKeywords(_, _)
InitKeywords(keywords, meta) ==
    IF keywords = <<>> THEN meta
    ELSE LET kw == Head(keywords) IN
         InitKeywords(Tail(keywords),
             IF kw.arg \in {"name", "description", "version"} /\ IsConstant(kw.value)
             THEN [meta EXCEPT ![kw.arg] = PyStr(kw.value.value)]
             ELSE meta)

\* The walk for calls of an attribute named __init__.
RECURSIVE InitCalls(_, _)
InitCalls(calls, meta) ==
    IF calls = <<>> THEN meta
    ELSE LET item == Head(calls) IN
         InitCalls(Tail(calls),
             IF IsAttribute(item.func) /\ item.func.attr = "__init__"
             THEN InitKeywords(item.keywords, meta)
             ELSE meta)

\* name, description and version before the manifest is looked at.
InlineMetadata(node) ==
    InitCalls(WalkCalls(node),
              [name |-> <<node.name>>, description |-> <<>>, version |-> <<>>])

\* MergeManifest with the inline values kept when both are given.
MergeManifestInlineFirst(meta, manifest_meta) ==
    [key \in {"name", "description", "version"} |->
        IF meta[key] = <<>> THEN manifest_meta[key] ELSE meta[key]]

\* The three `if manifest_meta.<field>:` assignments.
MergeManifest(meta, manifest_meta) ==
    [key \in {"name", "description", "version"} |->
        IF manifest_meta[key] # <<>> THEN manifest_meta[key] ELSE meta[key]]

\* docstring.split("\n")[0]
RECURSIVE FirstLine(_)
FirstLine(text) ==
    IF text = <<>> \/ Head(text) = "\n" THEN <<>>
    ELSE <<Head(text)>> \o FirstLine(Tail(text))

\* DocstringFallback with the docstring taken whenever the class has one.
DocstringFallbackAlways(description, node) ==
    IF node.docstring.present /\ node.docstring.text # <<>>
    THEN Strip(FirstLine(node.docstring.text))
    ELSE description

\* The description after the docstring fallback.
DocstringFallback(description, node) ==
    IF description = <<>> /\ node.docstring.present /\ node.docstring.text # <<>>
    THEN Strip(FirstLine(node.docstring.text))
    ELSE description

\* The body of the loop over the ClassDef nodes for a class with a
\* recognized base: the exception that leaves it ("None" when none does)
\* and the DiscoveredAgent appended.
ExtractAgent(node, file, files) ==
    LET inline == InlineMetadata(node)
        manifest_filename == ExtractManifestFilename(node)
        loaded == IF manifest_filename # StrValue(<<>>)
                  THEN LoadManifestMetadata(file, manifest_filename, files)
                  ELSE [raised |-> "None", meta |-> EmptyMetadata]
        merged == MergeManifest(inline, loaded.meta)
    IN [raised |-> loaded.raised,
        agent |-> [name |-> merged.name,
                   class_name |-> node.name,
                   file_path |-> file.path,
                   description |-> DocstringFallback(merged.description, node),
                   version |-> merged.version,
                   base_class |-> BaseClassName(node.bases),
                   methods |-> ExtractDecoratedMethods(node, file.lines)]]

(***************************************************************************)
(* The files the file scan is run on.                                      *)
(***************************************************************************)
SuperInit(keywords) ==
    Call(Attribute(Call(Name("super"), <<>>, <<>>), "__init__"), <<>>, keywords)
LoadManifest(args, keywords) == Call(Name("load_manifest"), args, keywords)
LoadDefaultManifest == LoadManifest(<<Name("__file__")>>, <<>>)

\* A keyword of super().__init__: not given, a literal, or a variable.
InlineChoices(arg, literal) ==
    {<<>>, <<keyword(arg, Constant(StrValue(literal)))>>,
     <<keyword(arg, Name("var"))>>}

InlineKeywordLists ==
    {n \o d \o v : n \in InlineChoices("name", <<"InlineName">>),
                   d \in InlineChoices("description", <<"A">>),
                   v \in InlineChoices("version", <<"1.0">>)}

\* A key of the manifest: not there, an empty string, a string, or a value
\* that is no string.
ManifestEntries(literal, other) ==
    {Absent, Present(StrValue(<<>>)), Present(StrValue(literal)), Present(other)}

ManifestObjects ==
    {JsonObject(n, d, v) :
        n \in ManifestEntries(<<"ManifestName">>, IntValue(5)),
        d \in ManifestEntries(<<"B">>, NoneValue),
        v \in ManifestEntries(<<"2.0">>, ListValue)}

FullManifest ==
    ManifestFile("json", JsonObject(Present(StrValue(<<"ManifestName">>)),
                                    Present(StrValue(<<"B">>)),
                                    Present(StrValue(<<"2.0">>))))
ListManifest == ManifestFile("json", ListValue)

ManifestStates ==
    {ManifestFile("json", o) : o \in ManifestObjects}
    \cup {ListManifest, ManifestFile("json", IntValue(5)), MissingFile,
          ManifestFile("directory", NoneValue),
          ManifestFile("unreadable", NoneValue),
          ManifestFile("undecodable", NoneValue),
          ManifestFile("invalid json", NoneValue)}

ClassDocstrings ==
    {NoDocstring, Docstring(<<>>), Docstring(<<"Doc", " ", "\n", "more">>),
     Docstring(<<" ", "\n", "more">>)}

\* What a class of these files defines: __init__, a tagged and an untagged
\* method.
AgentBody ==
    <<Stmt("FunctionDef", "__init__", <<>>, NoDocstring),
      Stmt("FunctionDef", "run", <<Name("primitive")>>, NoDocstring),
      Stmt("FunctionDef", "helper", <<>>, NoDocstring)>>

BaseExprs ==
    {Name("PlanExecute"), Name("Planner"), Name("object"),
     Attribute(Name("core"), "Planner"), Attribute(Name("Planner"), "Config")}

\* The class at position k of a file.
ClassNameAt(k) ==
    CASE k = 1 -> "Agent1" [] k = 2 -> "Agent2" [] k = 3 -> "Agent3"
      [] OTHER -> "Agent4"

\* Classes of the files with several classes.
ClassShapes ==
    {ClassDef("", <<Name("PlanExecute")>>, NoDocstring, AgentBody, <<>>),
     ClassDef("", <<Name("object"), Attribute(Name("core"), "Planner")>>,
              NoDocstring, AgentBody,
              <<SuperInit(<<keyword("name", Constant(StrValue(<<"InlineName">>)))>>)>>),
     ClassDef("", <<Name("object")>>, NoDocstring, AgentBody, <<>>),
     ClassDef("", <<Name("Planner")>>, NoDocstring, AgentBody,
              <<LoadDefaultManifest>>)}

\* The classes of a file placed from line `first` on, named by position.
RECURSIVE PlaceClasses(_, _, _)
PlaceClasses(shapes, k, first) ==
    IF shapes = <<>> THEN <<>>
    ELSE LET c == Head(shapes) IN
         << [c EXCEPT !.name = ClassNameAt(k),
                      !.body = PlaceBody(c.body, first + 1)] >>
         \o PlaceClasses(Tail(shapes), k + 1, first + 1 + Len(BodyLines(c.body)))

RECURSIVE ClassesLines(_, _)
ClassesLines(shapes, k) ==
    IF shapes = <<>> THEN <<>>
    ELSE <<ClassLine(ClassNameAt(k))>> \o BodyLines(Head(shapes).body)
         \o ClassesLines(Tail(shapes), k + 1)

\* The file agent.py with these classes.
AgentFile(shapes) ==
    SourceFile(<<"agents", "agent.py">>, "agent", "file", "text",
               PlaceClasses(shapes, 1, 1), ClassesLines(shapes, 1))

\* The file agent.py with these statements.
TreeFile(body) ==
    [SourceFile(<<"agents", "agent.py">>, "agent", "file", "text",
                WalkClasses(PlaceBody(body, 1)), BodyLines(body))
       EXCEPT !.tree = PlaceBody(body, 1)]

\* agent.py when it is not a file with text that parses.
BrokenFile(kind, content) ==
    SourceFile(<<"agents", "agent.py">>, "agent", kind, content, <<>>, <<>>)

DefaultManifestName == <<"agent", ".manifest.json">>

\* A manifest that gives the three keys these strings.
ManifestWith(n, d, v) ==
    ManifestFile("json", JsonObject(Present(StrValue(n)), Present(StrValue(d)),
                                    Present(StrValue(v))))

\* Other files of the directory of agent.py, by name.
SideFiles ==
    (<<"custom.json">> :> ManifestWith(<<"CustomName">>, <<"C">>, <<"3.0">>))
    @@ (<<"other.json">> :> ManifestWith(<<"OtherName">>, <<"O">>, <<"4.0">>))
    @@ (<<"5">> :> ManifestWith(<<"FiveName">>, <<"F">>, <<"5.0">>))

\* Arguments of a load_manifest call: the positional ones and the keywords.
ManifestArgs ==
    {<<>>, <<Name("__file__")>>,
     <<Name("__file__"), Constant(StrValue(<<"custom.json">>))>>,
     <<Name("__file__"), Name("var")>>,
     <<Name("__file__"), Constant(IntValue(5))>>,
     <<Name("__file__"), Constant(StrValue(<<>>))>>}

ManifestKeywords ==
    {<<>>,
     <<keyword("manifest_name", Constant(StrValue(<<"other.json">>)))>>,
     <<keyword("manifest_name", Name("var"))>>,
     <<keyword("name", Constant(StrValue(<<"custom.json">>)))>>,
     <<keyword("manifest_name", Name("var")),
       keyword("manifest_name", Constant(StrValue(<<"custom.json">>)))>>,
     <<keyword("manifest_name", Constant(StrValue(<<"other.json">>))),
       keyword("manifest_name", Constant(StrValue(<<"custom.json">>)))>>}

LoadManifestCalls ==
    {LoadManifest(a, k) : a \in ManifestArgs, k \in ManifestKeywords}

\* load_manifest reached through an attribute.
QualifiedLoadManifest ==
    Call(Attribute(Name("manifests"), "load_manifest"),
         <<Name("__file__"), Constant(StrValue(<<"custom.json">>))>>, <<>>)

\* load_manifest called as a method of the instance.
SelfLoadManifest ==
    Call(Attribute(Name("self"), "load_manifest"),
         <<Name("__file__"), Constant(StrValue(<<"custom.json">>))>>, <<>>)

\* The calls of a class subtree in walk order: one load_manifest call after
\* super().__init__, two of them, and a qualified one alone or first.
ManifestCallLists ==
    {<<SuperInit(<<keyword("name", Constant(StrValue(<<"InlineName">>)))>>), c>> :
        c \in LoadManifestCalls}
    \cup {<<LoadManifest(<<Name("__file__"), Constant(StrValue(<<"other.json">>))>>,
                         <<>>), LoadDefaultManifest>>,
          <<LoadDefaultManifest,
            LoadManifest(<<Name("__file__"), Constant(StrValue(<<"other.json">>))>>,
                         <<>>)>>,
          <<LoadManifest(<<Name("__file__"), Name("var")>>, <<>>),
            LoadManifest(<<Name("__file__"), Constant(StrValue(<<"other.json">>))>>,
                         <<>>)>>,
          <<QualifiedLoadManifest>>,
          <<QualifiedLoadManifest, LoadDefaultManifest>>,
          <<SelfLoadManifest>>,
          <<SelfLoadManifest,
            LoadManifest(<<Name("__file__"), Constant(StrValue(<<"other.json">>))>>,
                         <<>>)>>}

\* Calls of an attribute __init__: on a base named in the class statement,
\* and on an object that is no base.
BaseInit(keywords) ==
    Call(Attribute(Name("PlanExecute"), "__init__"), <<Name("self")>>, keywords)
ForeignInit(keywords) ==
    Call(Attribute(Name("x"), "__init__"), <<>>, keywords)

NameIs(literal) == keyword("name", Constant(StrValue(literal)))

\* The calls of a class subtree in walk order, with several calls of an
\* attribute __init__ or with calls that only look like one.
InitCallLists ==
    {<<SuperInit(<<NameIs(<<"N1">>)>>), SuperInit(<<NameIs(<<"N2">>)>>)>>,
     <<SuperInit(<<NameIs(<<"N1">>), NameIs(<<"N2">>)>>)>>,
     <<SuperInit(<<NameIs(<<"N1">>),
                   keyword("description", Constant(StrValue(<<"A">>)))>>),
       BaseInit(<<keyword("name", Name("var")),
                  keyword("version", Constant(StrValue(<<"1.0">>)))>>)>>,
     <<BaseInit(<<NameIs(<<"N1">>)>>),
       SuperInit(<<keyword("name", Constant(NoneValue)),
                   keyword("version", Constant(IntValue(5)))>>)>>,
     <<SuperInit(<<NameIs(<<"N1">>)>>), ForeignInit(<<NameIs(<<"N">>)>>)>>,
     <<ForeignInit(<<NameIs(<<"N">>)>>), SuperInit(<<NameIs(<<"N1">>)>>)>>,
     <<ForeignInit(<<NameIs(<<"N">>),
                     keyword("version", Constant(StrValue(<<"9.9">>)))>>)>>,
     <<Call(Attribute(Name("self"), "configure"), <<>>, <<NameIs(<<"N">>)>>)>>,
     <<Call(Name("__init__"), <<>>, <<NameIs(<<"N">>)>>)>>}

\* A method with these statements as its body.
Method(name, decorator_list, body) ==
    [Stmt("FunctionDef", name, decorator_list, NoDocstring) EXCEPT !.body = body]

\* Statements of the __init__ of an enclosing and of a nested class.
OuterStatements ==
    {<<>>,
     <<Expr(SuperInit(<<NameIs(<<"OuterName">>),
                        keyword("version", Constant(StrValue(<<"1.0">>)))>>))>>,
     <<Expr(LoadDefaultManifest)>>}
InnerStatements ==
    {<<>>,
     <<Expr(SuperInit(<<NameIs(<<"InnerName">>),
                        keyword("version", Constant(StrValue(<<"9.9">>)))>>))>>,
     <<Expr(LoadManifest(<<Name("__file__"), Constant(StrValue(<<"other.json">>))>>,
                         <<>>))>>}

\* A class declared inside another class or inside a function.
InnerClass(base, statements) ==
    ClassDef("Inner", <<base>>, NoDocstring,
             <<Method("__init__", <<>>, statements),
               Method("inner_run", <<Name("primitive")>>, <<>>)>>, <<>>)

InnerClasses ==
    {InnerClass(base, statements) :
        base \in {Name("PlanExecute"), Name("object")},
        statements \in InnerStatements}

\* An agent class with a class nested in its body, after or before its
\* methods, or in one of its methods.
OuterClasses ==
    UNION {{ClassDef("Outer", <<Name("PlanExecute")>>, Docstring(<<"Doc">>),
                     <<Method("__init__", <<>>, statements),
                       Method("run", <<Name("primitive")>>, <<>>), inner>>, <<>>),
            ClassDef("Outer", <<Name("PlanExecute")>>, Docstring(<<"Doc">>),
                     <<inner, Method("__init__", <<>>, statements),
                       Method("run", <<Name("primitive")>>, <<>>)>>, <<>>),
            ClassDef("Outer", <<Name("PlanExecute")>>, Docstring(<<"Doc">>),
                     <<Method("__init__", <<>>, statements),
                       Method("run", <<Name("primitive")>>, <<inner>>)>>, <<>>)} :
           statements \in OuterStatements, inner \in InnerClasses}

SecondClass ==
    ClassDef("Second", <<Name("Planner")>>, NoDocstring,
             <<Method("plan", <<Call(Name("decomposition"), <<>>, <<>>)>>, <<>>)>>,
             <<>>)

\* The statements of a module: an agent class with a nested class, alone or
\* before another agent class; a class declared in a function or in a class
\* that is no agent, before an agent class.
ModuleBodies ==
    {<<outer>> : outer \in OuterClasses}
    \cup {<<outer, SecondClass>> : outer \in OuterClasses}
    \cup {<<Method("factory", <<>>, <<inner>>), SecondClass>> : inner \in InnerClasses}
    \cup {<<ClassDef("Plain", <<Name("object")>>, NoDocstring, <<inner>>, <<>>),
            SecondClass>> : inner \in InnerClasses}

\* The files and the manifests next to them: one class with every inline
\* value and every manifest; one class with every list of bases; several
\* classes; and files that are not read or not parsed.
ScanInputs ==
    {<<AgentFile(<<ClassDef("", <<Name("PlanExecute")>>, doc, AgentBody,
                            <<SuperInit(kws), LoadDefaultManifest>>)>>), m>> :
        kws \in InlineKeywordLists, doc \in ClassDocstrings, m \in ManifestStates}
    \cup {<<AgentFile(<<ClassDef("", bases, NoDocstring, AgentBody, calls)>>), m>> :
            bases \in SeqsUpTo(BaseExprs, MaxBases),
            calls \in {<<>>, <<LoadDefaultManifest>>},
            m \in {MissingFile, ListManifest, FullManifest}}
    \cup {<<AgentFile(shapes), m>> :
            shapes \in SeqsUpTo(ClassShapes, MaxClasses),
            m \in {MissingFile, ListManifest, FullManifest}}
    \cup {<<AgentFile(<<ClassDef("", <<Name("PlanExecute")>>, doc, AgentBody,
                                 calls)>>), m>> :
            calls \in ManifestCallLists, doc \in {NoDocstring, Docstring(<<"Doc">>)},
            m \in {MissingFile, FullManifest}}
    \cup {<<AgentFile(<<ClassDef("", <<Name("PlanExecute")>>, doc, AgentBody,
                                 calls)>>), FullManifest>> :
            calls \in InitCallLists, doc \in {NoDocstring, Docstring(<<"Doc">>)}}
    \cup {<<TreeFile(body), m>> :
            body \in ModuleBodies, m \in {MissingFile, FullManifest}}
    \cup {<<BrokenFile("file", content), FullManifest>> :
            content \in {"invalid syntax", "unreadable", "undecodable"}}
    \cup {<<BrokenFile(kind, "text"), FullManifest>> :
            kind \in {"missing", "directory"}}

(***************************************************************************)
(* scan_file_for_agents, one class of the tree at a time.                  *)
(***************************************************************************)
\* The variables of the method extraction while none runs by itself.
MethodsIdle ==
    /\ class_node = [node |-> "none"]
    /\ source_lines = <<>>
    /\ item_i = 0
    /\ methods = <<>>

InitFile ==
    \E input \in ScanInputs :
        /\ file_path = input[1]
        /\ manifest_files = (DefaultManifestName :> input[2]) @@ SideFiles
        /\ class_i = 0
        /\ agents = <<>>
        /\ raised = "None"
        /\ pc = "scan_file"
        /\ MethodsIdle
        /\ DirIdle
        /\ UiIdle

\* `if not file_path.exists() or not file_path.is_file(): return []`
ScanFileNotAFile ==
    /\ pc = "scan_file"
    /\ UNCHANGED uiVars
    /\ file_path.kind # "file"
    /\ pc' = "file_returned"
    /\ agents' = <<>>
    /\ UNCHANGED <<methodVars, file_path, manifest_files, class_i, raised, dirVars>>

\* scan_file_for_agents calls _extract_agent_info_from_ast.
ScanFileEnter ==
    /\ pc = "scan_file"
    /\ UNCHANGED uiVars
    /\ file_path.kind = "file"
    /\ pc' = "read"
    /\ agents' = <<>>
    /\ UNCHANGED <<methodVars, file_path, manifest_files, class_i, raised, dirVars>>

\* The try block reads and parses the file.
ReadParsed ==
    /\ pc = "read"
    /\ UNCHANGED uiVars
    /\ ReadAndParse(file_path) = "None"
    /\ pc' = "walk"
    /\ source_lines' = file_path.lines
    /\ UNCHANGED <<class_node, item_i, methods, fileVars, dirVars>>

\* The except clause returns the empty list.
ReadHandled ==
    /\ pc = "read"
    /\ UNCHANGED uiVars
    /\ ReadAndParse(file_path) # "None"
    /\ Handles(ParseHandlers, ReadAndParse(file_path))
    /\ pc' = "file_returned"
    /\ UNCHANGED <<methodVars, fileVars, dirVars>>

\* An exception the except clause does not name leaves the scan.
ReadRaises ==
    /\ pc = "read"
    /\ UNCHANGED uiVars
    /\ ReadAndParse(file_path) # "None"
    /\ ~Handles(ParseHandlers, ReadAndParse(file_path))
    /\ pc' = "file_raised"
    /\ raised' = ReadAndParse(file_path)
    /\ UNCHANGED <<methodVars, file_path, manifest_files, class_i, agents, dirVars>>

\* `if not base_class_name: continue`
ClassSkipped ==
    /\ pc = "walk"
    /\ UNCHANGED uiVars
    /\ class_i < Len(file_path.classes)
    /\ BaseClassName(file_path.classes[class_i + 1].bases) = "None"
    /\ class_i' = class_i + 1
    /\ UNCHANGED <<pc, methodVars, file_path, manifest_files, agents, raised, dirVars>>

\* The class has a recognized base and its agent is appended.
ClassAppended ==
    /\ pc = "walk"
    /\ UNCHANGED uiVars
    /\ class_i < Len(file_path.classes)
    /\ BaseClassName(file_path.classes[class_i + 1].bases) # "None"
    /\ LET found == ExtractAgent(file_path.classes[class_i + 1], file_path,
                                 manifest_files)
       IN /\ found.raised = "None"
          /\ agents' = Append(agents, found.agent)
    /\ class_i' = class_i + 1
    /\ UNCHANGED <<pc, methodVars, file_path, manifest_files, raised, dirVars>>

\* The manifest loader lets an exception out, which leaves the scan.
ClassRaises ==
    /\ pc = "walk"
    /\ UNCHANGED uiVars
    /\ class_i < Len(file_path.classes)
    /\ BaseClassName(file_path.classes[class_i + 1].bases) # "None"
    /\ LET found == ExtractAgent(file_path.classes[class_i + 1], file_path,
                                 manifest_files)
       IN /\ found.raised # "None"
          /\ raised' = found.raised
    /\ pc' = "file_raised"
    /\ UNCHANGED <<methodVars, file_path, manifest_files, class_i, agents, dirVars>>

\* `return agents`
FileReturn ==
    /\ pc = "walk"
    /\ UNCHANGED uiVars
    /\ class_i = Len(file_path.classes)
    /\ pc' = "file_returned"
    /\ UNCHANGED <<methodVars, fileVars, dirVars>>

NextFile ==
    \/ ScanFileNotAFile
    \/ ScanFileEnter
    \/ ReadParsed
    \/ ReadHandled
    \/ ReadRaises
    \/ ClassSkipped
    \/ ClassAppended
    \/ ClassRaises
    \/ FileReturn

SpecFile == InitFile /\ [][NextFile]_vars

(***************************************************************************)
(* Properties of the file scan.                                            *)
(***************************************************************************)
FileReturned == pc = "file_returned"
MetadataKeys == {"name", "description", "version"}

\* The agents produced for the class at position k of the file.
AgentsFor(k) ==
    {i \in 1..Len(agents) : agents[i].class_name = file_path.classes[k].name}

\* A base that names one of the two agent contracts.
MatchesContract(base) ==
    \/ IsName(base) /\ base.id \in {"PlanExecute", "Planner"}
    \/ IsAttribute(base) /\ base.attr \in {"PlanExecute", "Planner"}

MatchingBases(node) ==
    {j \in 1..Len(node.bases) : MatchesContract(node.bases[j])}

ContractOf(base) == IF IsName(base) THEN base.id ELSE base.attr

\* The class has a call of the bare name load_manifest in its subtree.
CallsLoadManifest(node) ==
    \E p \in 1..Len(node.calls) :
        IsName(node.calls[p].func) /\ node.calls[p].func.id = "load_manifest"

\* The calls of an __init__ attribute that give `key` a literal.
InitPositions(node, key) ==
    {p \in 1..Len(node.calls) :
        /\ IsAttribute(node.calls[p].func)
        /\ node.calls[p].func.attr = "__init__"
        /\ LiteralPositions(node.calls[p], key) # {}}

\* The inline value of a key: the literal of the last such call in walk
\* order, otherwise the class identifier for name and "" for the others.
InlineValue(node, key) ==
    IF InitPositions(node, key) # {}
    THEN PyStr(LiteralGiven(
            node.calls[CHOOSE p \in InitPositions(node, key) :
                          \A q \in InitPositions(node, key) : q <= p], key))
    ELSE IF key = "name" THEN <<node.name>> ELSE <<>>

\* The manifest file a class is resolved to.
ManifestOf(node) ==
    LET given == ExtractManifestFilename(node) IN
    ManifestAt(manifest_files,
               IF given = NoneValue THEN <<file_path.stem>> \o <<".manifest.json">>
               ELSE given.s)

\* The value the manifest gives a key: "" when the file is missing or no
\* JSON object, or when the key is missing or no string.
ManifestValue(node, key) ==
    LET m == ManifestOf(node) IN
    IF /\ m.kind = "json"
       /\ m.data.ty = "dict"
       /\ m.data.entries[key].has
       /\ m.data.entries[key].value.ty = "str"
    THEN m.data.entries[key].value.s
    ELSE <<>>

\* The manifest value when there is one, the inline value otherwise.
MergedValue(node, key) ==
    IF ManifestValue(node, key) # <<>> THEN ManifestValue(node, key)
    ELSE InlineValue(node, key)

\* The trimmed first line of the class docstring, "" without a docstring.
DocstringLine(node) ==
    IF node.docstring.present THEN Strip(FirstLine(node.docstring.text)) ELSE <<>>

\* C1 as stated: for a class that calls load_manifest, each of name,
\* description and version of its agent is the manifest's value when that is
\* non-empty, and the inline or default value otherwise.
C1_ManifestMergeAllFields ==
    FileReturned =>
        \A k \in 1..Len(file_path.classes) :
            CallsLoadManifest(file_path.classes[k]) =>
                \A i \in AgentsFor(k) : \A key \in MetadataKeys :
                    agents[i][key] = MergedValue(file_path.classes[k], key)

\* C1, amended: name and version are the manifest's value when that is
\* non-empty and the inline or default value otherwise; so is description,
\* except that when both are empty it is the trimmed first line of the
\* class docstring, if the class has one.
C1_ManifestMergeThenDocstring ==
    FileReturned =>
        \A k \in 1..Len(file_path.classes) :
            LET node == file_path.classes[k] IN
            CallsLoadManifest(node) =>
                \A i \in AgentsFor(k) :
                    /\ agents[i].name = MergedValue(node, "name")
                    /\ agents[i].version = MergedValue(node, "version")
                    /\ agents[i].description =
                         IF MergedValue(node, "description") # <<>>
                         THEN MergedValue(node, "description")
                         ELSE DocstringLine(node)

\* Inline description "A", manifest description "B", resolved "B".
C1_Witness ==
    /\ FileReturned
    /\ \E k \in 1..Len(file_path.classes) :
        /\ CallsLoadManifest(file_path.classes[k])
        /\ InlineValue(file_path.classes[k], "description") = <<"A">>
        /\ ManifestValue(file_path.classes[k], "description") = <<"B">>
        /\ ManifestValue(file_path.classes[k], "name") = <<>>
        /\ \E i \in AgentsFor(k) :
            /\ agents[i].description = <<"B">>
            /\ agents[i].name = InlineValue(file_path.classes[k], "name")

\* C2: whatever the state of the manifest file, the scan of a source file
\* that reads and parses lets no exception out, and a manifest that is
\* missing, unreadable, undecodable, no JSON, no JSON object, or whose
\* fields are no strings leaves the agent its inline or default values.
C2_ManifestNeverRaises ==
    file_path.content = "text" =>
        /\ raised = "None"
        /\ pc # "file_raised"
        /\ FileReturned =>
            \A k \in 1..Len(file_path.classes) :
                MatchingBases(file_path.classes[k]) # {} =>
                    /\ AgentsFor(k) # {}
                    /\ \A i \in AgentsFor(k) :
                        /\ agents[i].name = MergedValue(file_path.classes[k], "name")
                        /\ agents[i].version
                             = MergedValue(file_path.classes[k], "version")

\* C3: the scan of a file with a syntax error returns the empty list and
\* lets no exception out.
C3_SyntaxErrorReturnsEmpty ==
    file_path.content = "invalid syntax" =>
        /\ raised = "None"
        /\ pc # "file_raised"
        /\ agents = <<>>
        /\ pc = "read" => ENABLED ReadHandled

C3_Witness ==
    /\ FileReturned
    /\ file_path.kind = "file"
    /\ file_path.content = "invalid syntax"
    /\ agents = <<>>

\* C5: the returned list holds one agent for each class with a base that
\* names a contract, in walk order, and none for any other class, tagged
\* methods or not; base_class is the contract of the first such base.
C5_AgentIffRecognizedBase ==
    FileReturned =>
        /\ \A k \in 1..Len(file_path.classes) :
            LET node == file_path.classes[k] IN
            /\ MatchingBases(node) = {} => AgentsFor(k) = {}
            /\ MatchingBases(node) # {} =>
                /\ Cardinality(AgentsFor(k)) = 1
                /\ \A i \in AgentsFor(k) :
                    agents[i].base_class =
                        ContractOf(node.bases[CHOOSE j \in MatchingBases(node) :
                                        \A n \in MatchingBases(node) : j <= n])
        /\ \A i \in 1..Len(agents) :
            /\ agents[i].base_class \in {"PlanExecute", "Planner"}
            /\ \E k \in 1..Len(file_path.classes) : i \in AgentsFor(k)
        /\ \A i, j \in 1..Len(agents) : \A k, n \in 1..Len(file_path.classes) :
            (i < j /\ i \in AgentsFor(k) /\ j \in AgentsFor(n)) => k < n

\* A class whose second base is the first to match, next to one without a
\* recognized base that has a tagged method.
C5_Witness ==
    /\ FileReturned
    /\ \E k \in 1..Len(file_path.classes) :
        /\ MatchingBases(file_path.classes[k]) = {}
        /\ \E n \in 1..Len(file_path.classes[k].body) :
            HasCapabilityTag(file_path.classes[k].body[n])
        /\ AgentsFor(k) = {}
    /\ Len(agents) = 1
    /\ \E k \in 1..Len(file_path.classes) :
        /\ file_path.classes[k].bases
             = <<Name("object"), Attribute(Name("core"), "Planner")>>
        /\ \E i \in AgentsFor(k) : agents[i].base_class = "Planner"

(***************************************************************************)
(* _extract_agent_info_from_ast as scan_directory_for_agents calls it: the *)
(* exception that leaves it ("None" when it returns) and the agents found. *)
(***************************************************************************)
RECURSIVE VisitClasses(_, _, _, _)
VisitClasses(classes, file, files, found) ==
    IF classes = <<>> THEN [raised |-> "None", agents |-> found]
    ELSE IF BaseClassName(Head(classes).bases) = "None"
    THEN VisitClasses(Tail(classes), file, files, found)
    ELSE LET one == ExtractAgent(Head(classes), file, files) IN
         IF one.raised # "None" THEN [raised |-> one.raised, agents |-> found]
         ELSE VisitClasses(Tail(classes), file, files, Append(found, one.agent))

ExtractAgentInfoFromAst(file, files) ==
    LET exc == ReadAndParse(file) IN
    IF exc = "None" THEN VisitClasses(file.classes, file, files, <<>>)
    ELSE IF Handles(ParseHandlers, exc) THEN [raised |-> "None", agents |-> <<>>]
    ELSE [raised |-> exc, agents |-> <<>>]

(***************************************************************************)
(* The directories the directory scan is run on.  py_files is what         *)
(* directory.rglob("*.py") yields, in the order it yields it.              *)
(***************************************************************************)
Directory(kind, parts, py_files) ==
    [kind |-> kind, parts |-> parts, py_files |-> py_files]

\* The file name of the k-th path under the root.
StemAt(k) ==
    CASE k = 1 -> "a" [] k = 2 -> "b" [] k = 3 -> "c" [] k = 4 -> "d"
      [] OTHER -> "e"

\* What lies under the root: where (in the root or in a __pycache__
\* directory), what (a file or a directory named *.py), and the content.
PathShapes ==
    {[under |-> <<>>, kind |-> "file", content |-> "text",
      classes |-> <<ClassDef("", <<Name("PlanExecute")>>, NoDocstring, AgentBody, <<>>)>>],
     [under |-> <<>>, kind |-> "file", content |-> "text",
      classes |-> <<ClassDef("", <<Name("object")>>, NoDocstring, AgentBody, <<>>),
                    ClassDef("", <<Name("Planner")>>, NoDocstring, AgentBody, <<>>)>>],
     [under |-> <<>>, kind |-> "file", content |-> "invalid syntax", classes |-> <<>>],
     [under |-> <<>>, kind |-> "file", content |-> "unreadable", classes |-> <<>>],
     [under |-> <<>>, kind |-> "file", content |-> "undecodable", classes |-> <<>>],
     [under |-> <<>>, kind |-> "directory", content |-> "text", classes |-> <<>>],
     [under |-> <<"__pycache__">>, kind |-> "file", content |-> "text",
      classes |-> <<ClassDef("", <<Name("PlanExecute")>>, NoDocstring, AgentBody, <<>>)>>]}

PathAt(root, shape, k) ==
    SourceFile(root \o shape.under \o <<StemAt(k), ".py">>, StemAt(k),
               shape.kind, shape.content,
               PlaceClasses(shape.classes, 1, 1), ClassesLines(shape.classes, 1))

\* The roots: a directory agents, and one that lies in a __pycache__
\* directory.
Roots == {<<"agents">>, <<"__pycache__", "agents">>}

Directories ==
    {Directory("directory", root,
               [k \in 1..Len(shapes) |-> PathAt(root, shapes[k], k)]) :
        shapes \in SeqsUpTo(PathShapes, MaxFiles), root \in Roots}
    \cup {Directory("file", <<"agents">>, <<>>),
          Directory("missing", <<"agents">>, <<>>)}

(***************************************************************************)
(* scan_directory_for_agents, one path of the rglob at a time.             *)
(***************************************************************************)
\* What a scan that ended gave its caller.
Outcome(exception, found) == [raised |-> exception, agents |-> found]

InitDir ==
    /\ directory \in Directories
    /\ file_i = 0
    /\ results = <<>>
    /\ agents = <<>>
    /\ raised = "None"
    /\ pc = "scan_dir"
    /\ file_path = [kind |-> "none"]
    /\ manifest_files = <<>>
    /\ class_i = 0
    /\ MethodsIdle
    /\ UiIdle

\* `if not directory.exists() or not directory.is_dir(): return []`
ScanDirNotADirectory ==
    /\ pc = "scan_dir"
    /\ UNCHANGED uiVars
    /\ directory.kind # "directory"
    /\ pc' = "dir_returned"
    /\ agents' = <<>>
    /\ results' = Append(results, Outcome("None", <<>>))
    /\ UNCHANGED <<methodVars, file_path, manifest_files, class_i, raised,
                   directory, file_i>>

\* ScanDirEnter with the list of the scan before kept.
ScanDirEnterKeepsAgents ==
    /\ pc = "scan_dir"
    /\ UNCHANGED uiVars
    /\ directory.kind = "directory"
    /\ pc' = "rglob"
    /\ UNCHANGED <<methodVars, fileVars, dirVars>>

\* ScanDirEnter without the test that the root is a directory.
ScanDirEnterUnguarded ==
    /\ pc = "scan_dir"
    /\ UNCHANGED uiVars
    /\ pc' = "rglob"
    /\ agents' = <<>>
    /\ UNCHANGED <<methodVars, file_path, manifest_files, class_i, raised, dirVars>>

\* `agents = []` and the start of the loop.
ScanDirEnter ==
    /\ pc = "scan_dir"
    /\ UNCHANGED uiVars
    /\ directory.kind = "directory"
    /\ pc' = "rglob"
    /\ agents' = <<>>
    /\ UNCHANGED <<methodVars, file_path, manifest_files, class_i, raised, dirVars>>

\* `if "__pycache__" in py_file.parts: continue`
InPycache(py_file) ==
    \E n \in 1..Len(py_file.path) : py_file.path[n] = "__pycache__"

DirSkipPycache ==
    /\ pc = "rglob"
    /\ UNCHANGED uiVars
    /\ file_i < Len(directory.py_files)
    /\ InPycache(directory.py_files[file_i + 1])
    /\ file_i' = file_i + 1
    /\ UNCHANGED <<pc, methodVars, fileVars, directory, results>>

\* `agents.extend(discovered)`
DirFileScanned ==
    /\ pc = "rglob"
    /\ UNCHANGED uiVars
    /\ file_i < Len(directory.py_files)
    /\ ~InPycache(directory.py_files[file_i + 1])
    /\ LET discovered == ExtractAgentInfoFromAst(directory.py_files[file_i + 1],
                                                 manifest_files)
       IN /\ discovered.raised = "None"
          /\ agents' = agents \o discovered.agents
    /\ file_i' = file_i + 1
    /\ file_path' = directory.py_files[file_i + 1]
    /\ UNCHANGED <<pc, methodVars, manifest_files, class_i, raised, directory,
                   results>>

\* The file scan lets an exception out, which leaves the directory scan.
DirFileRaises ==
    /\ pc = "rglob"
    /\ UNCHANGED uiVars
    /\ file_i < Len(directory.py_files)
    /\ ~InPycache(directory.py_files[file_i + 1])
    /\ LET discovered == ExtractAgentInfoFromAst(directory.py_files[file_i + 1],
                                                 manifest_files)
       IN /\ discovered.raised # "None"
          /\ raised' = discovered.raised
          /\ results' = Append(results, Outcome(discovered.raised, <<>>))
    /\ pc' = "dir_raised"
    /\ file_path' = directory.py_files[file_i + 1]
    /\ UNCHANGED <<methodVars, manifest_files, class_i, agents, directory, file_i>>

\* `return agents`
DirReturn ==
    /\ pc = "rglob"
    /\ UNCHANGED uiVars
    /\ file_i = Len(directory.py_files)
    /\ pc' = "dir_returned"
    /\ results' = Append(results, Outcome("None", agents))
    /\ UNCHANGED <<methodVars, fileVars, directory, file_i>>

\* The caller scans the same directory once more; nothing of the scan
\* before is handed to the new call.
ScanDirAgain ==
    /\ pc \in {"dir_returned", "dir_raised"}
    /\ UNCHANGED uiVars
    /\ Len(results) < MaxScans
    /\ pc' = "scan_dir"
    /\ file_i' = 0
    /\ raised' = "None"
    /\ UNCHANGED <<methodVars, file_path, manifest_files, class_i, agents,
                   directory, results>>

NextDir ==
    \/ ScanDirNotADirectory
    \/ ScanDirEnter
    \/ DirSkipPycache
    \/ DirFileScanned
    \/ DirFileRaises
    \/ DirReturn
    \/ ScanDirAgain

SpecDir == InitDir /\ [][NextDir]_vars

(***************************************************************************)
(* Properties of the directory scan.                                       *)
(***************************************************************************)
\* A file that cannot be read, cannot be decoded, or has a syntax error.
IsBroken(file) ==
    file.content \in {"unreadable", "undecodable", "invalid syntax"}

\* The agents of the files up to position k, the broken ones and those in
\* __pycache__ left out, in traversal order.
RECURSIVE AgentsOfOthers(_)
AgentsOfOthers(k) ==
    IF k = 0 THEN <<>>
    ELSE AgentsOfOthers(k - 1) \o
         (IF IsBroken(directory.py_files[k]) \/ InPycache(directory.py_files[k])
          THEN <<>>
          ELSE ExtractAgentInfoFromAst(directory.py_files[k], manifest_files).agents)

\* C4: a file that is unreadable, undecodable or has a syntax error
\* contributes no agent, the directory scan lets no exception out, and the
\* result is the agents of the other files in traversal order.
C4_PerFileIsolation ==
    directory.kind = "directory" =>
        /\ raised = "None"
        /\ pc # "dir_raised"
        /\ pc = "dir_returned" => agents = AgentsOfOthers(Len(directory.py_files))

(***************************************************************************)
(* Properties of the manifest lookup.                                      *)
(***************************************************************************)
\* The load_manifest call a class is resolved by: the first call of the
\* bare name in walk order.
SelectedCall(node) ==
    node.calls[CHOOSE p \in 1..Len(node.calls) :
        /\ IsName(node.calls[p].func) /\ node.calls[p].func.id = "load_manifest"
        /\ \A q \in 1..(p - 1) :
            ~(IsName(node.calls[q].func) /\ node.calls[q].func.id = "load_manifest")]

\* The literal a call gives under the keyword `arg`, the first one should
\* the keyword be written more than once.
FirstLiteralGiven(call, arg) ==
    call.keywords[CHOOSE j \in LiteralPositions(call, arg) :
                     \A n \in LiteralPositions(call, arg) : j <= n].value.value

\* The manifest filename a call names: its second positional argument when
\* that is a literal, otherwise its literal keyword manifest_name, otherwise
\* <stem>.manifest.json.
NamedManifest(call, stem) ==
    IF Len(call.args) >= 2 /\ IsConstant(call.args[2])
    THEN PyStr(call.args[2].value)
    ELSE IF LiteralPositions(call, "manifest_name") # {}
    THEN PyStr(FirstLiteralGiven(call, "manifest_name"))
    ELSE <<stem, ".manifest.json">>

\* The value the file of that name, in the directory of the source file,
\* gives a key: "" unless it is a JSON object with a string under the key.
FieldOfFile(filename, key) ==
    LET m == ManifestAt(manifest_files, filename) IN
    IF /\ m.kind = "json"
       /\ m.data.ty = "dict"
       /\ m.data.entries[key].has
       /\ m.data.entries[key].value.ty = "str"
    THEN m.data.entries[key].value.s
    ELSE <<>>

\* A value from the file when it gives one, the inline value otherwise.
ResolvedFrom(filename, node, key) ==
    IF FieldOfFile(filename, key) # <<>> THEN FieldOfFile(filename, key)
    ELSE InlineValue(node, key)

\* C11: the name and version of the agent of a class that calls
\* load_manifest are resolved from the file, in the directory of the source
\* file, that the selected call names: its second positional argument when
\* a literal, otherwise its literal keyword manifest_name, otherwise
\* <stem>.manifest.json.
C11_ManifestFilenameResolution ==
    FileReturned =>
        \A k \in 1..Len(file_path.classes) :
            LET node == file_path.classes[k] IN
            CallsLoadManifest(node) =>
                LET filename == NamedManifest(SelectedCall(node), file_path.stem) IN
                \A i \in AgentsFor(k) :
                    /\ agents[i].name = ResolvedFrom(filename, node, "name")
                    /\ agents[i].version = ResolvedFrom(filename, node, "version")

\* agent.py with load_manifest(__file__) next to agent.manifest.json with
\* version "2.0" resolves version "2.0".
C11_Witness ==
    /\ FileReturned
    /\ file_path.stem = "agent"
    /\ \E k \in 1..Len(file_path.classes) :
        /\ CallsLoadManifest(file_path.classes[k])
        /\ SelectedCall(file_path.classes[k]) = LoadDefaultManifest
        /\ FieldOfFile(<<"agent", ".manifest.json">>, "version") = <<"2.0">>
        /\ \E i \in AgentsFor(k) : agents[i].version = <<"2.0">>

\* A call that names a file by keyword after a second argument that is no
\* literal is resolved from the file of the keyword.
C11_WitnessKeyword ==
    /\ FileReturned
    /\ \E k \in 1..Len(file_path.classes) :
        /\ CallsLoadManifest(file_path.classes[k])
        /\ SelectedCall(file_path.classes[k]).args = <<Name("__file__"), Name("var")>>
        /\ NamedManifest(SelectedCall(file_path.classes[k]), "agent") = <<"other.json">>
        /\ \E i \in AgentsFor(k) : agents[i].version = <<"4.0">>

\* C12: without a call of load_manifest in the class subtree the agent has
\* its inline or default values whatever files lie next to the source
\* file; with one, a name the resolved file gives is the agent's name.
C12_ManifestIffCalled ==
    FileReturned =>
        \A k \in 1..Len(file_path.classes) :
            LET node == file_path.classes[k] IN
            \A i \in AgentsFor(k) :
                /\ ~CallsLoadManifest(node) =>
                    /\ agents[i].name = InlineValue(node, "name")
                    /\ agents[i].version = InlineValue(node, "version")
                    /\ agents[i].description =
                         IF InlineValue(node, "description") # <<>>
                         THEN InlineValue(node, "description")
                         ELSE DocstringLine(node)
                /\ CallsLoadManifest(node) =>
                    LET filename == NamedManifest(SelectedCall(node), file_path.stem)
                    IN FieldOfFile(filename, "name") # <<>> =>
                           agents[i].name = FieldOfFile(filename, "name")

\* A class without the call, next to a manifest with every field, keeps its
\* own name.
C12_Witness ==
    /\ FileReturned
    /\ FieldOfFile(<<"agent", ".manifest.json">>, "name") = <<"ManifestName">>
    /\ \E k \in 1..Len(file_path.classes) :
        /\ ~CallsLoadManifest(file_path.classes[k])
        /\ file_path.classes[k].calls # <<>>
        /\ \E i \in AgentsFor(k) : agents[i].name = <<file_path.classes[k].name>>

(***************************************************************************)
(* Properties of the extracted source and signature.                       *)
(***************************************************************************)
\* text.split("\n")
RECURSIVE SplitLines(_)
SplitLines(text) ==
    IF \A n \in 1..Len(text) : text[n] # "\n" THEN <<text>>
    ELSE LET at == CHOOSE n \in 1..Len(text) :
                      text[n] = "\n" /\ \A q \in 1..(n - 1) : text[q] # "\n"
         IN <<SubSeq(text, 1, at - 1)>>
            \o SplitLines(SubSeq(text, at + 1, Len(text)))

\* The decorator a line `@...` of a method text stands for, as far as its
\* name goes.
ReparsedDecorator(line) ==
    LET expr == Tail(line) IN
    IF Len(expr) = 1 THEN Name(expr[1])
    ELSE IF Len(expr) >= 2 /\ expr[2] = "(" THEN Call(Name(expr[1]), <<>>, <<>>)
    ELSE IF Len(expr) = 3 THEN Attribute(Name(expr[1]), expr[3])
    ELSE Call(Attribute(Name(expr[1]), expr[3]), <<>>, <<>>)

\* The decorators of the lines `@...` a method text starts with.
RECURSIVE ReparsedDecorators(_)
ReparsedDecorators(lines) ==
    IF lines = <<>> \/ LStrip(Head(lines)) = <<>> \/ Head(LStrip(Head(lines))) # "@"
    THEN <<>>
    ELSE <<ReparsedDecorator(LStrip(Head(lines)))>> \o ReparsedDecorators(Tail(lines))

\* The method node a parser makes of a method text, its indentation taken
\* off: the decorators of the lines above the def line, and the name the
\* def line gives.
ReparsedMethod(text) ==
    LET lines == SplitLines(text)
        decorator_list == ReparsedDecorators(lines)
        rest == SubSeq(lines, Len(decorator_list) + 1, Len(lines))
        def_line == IF rest = <<>> THEN <<>> ELSE LStrip(Head(rest))
    IN [name |-> IF Len(def_line) >= 3 /\ def_line[1] = "def" THEN def_line[3] ELSE "",
        decorator_list |-> decorator_list]

\* The capability tag of a method node: "None" without one.
CapabilityTagOf(node) ==
    IF TagPositions(node) = {} THEN "None"
    ELSE TagName(node.decorator_list[CHOOSE j \in TagPositions(node) :
                                        \A n \in TagPositions(node) : n <= j])

\* The method text of a statement re-parses to its name and its tag.
ReparseOfFileText ==
    \A k \in 1..Len(class_node.body) :
        IsFunctionDef(class_node.body[k]) =>
            LET node == ReparsedMethod(JoinLines(StmtLines(class_node.body[k]))) IN
            /\ node.name = class_node.body[k].name
            /\ CapabilityTagOf(node) = CapabilityTagOf(class_node.body[k])

\* The extracted source of each discovered method re-parses to a method of
\* the same name.
ReparsedNameKept ==
    \A i \in 1..Len(methods) : ReparsedMethod(methods[i].source).name = methods[i].name

\* C13: the extracted source of each discovered method re-parses to a
\* method node with the same name and the same capability tag.
C13_SourceRoundTrip ==
    \A i \in 1..Len(methods) :
        LET node == ReparsedMethod(methods[i].source) IN
        /\ node.name = methods[i].name
        /\ CapabilityTagOf(node) = methods[i].method_type

\* The statement of the class body a discovered method was made from.
ItemOf(i) ==
    class_node.body[CHOOSE k \in 1..Len(class_node.body) : i \in FoundFor(k)]

\* Lines a to b of the line buffer (1-based, inclusive) joined by line
\* breaks.
RECURSIVE BufferLines(_, _)
BufferLines(a, b) ==
    IF a > b THEN <<>>
    ELSE IF a = b THEN source_lines[a]
    ELSE source_lines[a] \o <<"\n">> \o BufferLines(a + 1, b)

\* C17: source is the buffer lines from line_number, the def line, through
\* the end line the parser reports, joined by line breaks and unmodified;
\* without a reported end line it is the line at line_number alone.
C17_SourceIsBufferSlice ==
    \A i \in 1..Len(methods) :
        LET item == ItemOf(i)
            last == IF item.end = "reported" THEN item.end_lineno
                    ELSE methods[i].line_number
        IN /\ methods[i].line_number = item.lineno
           /\ Contains(source_lines[methods[i].line_number],
                       <<"def", " ", methods[i].name>>)
           /\ methods[i].source = BufferLines(methods[i].line_number, last)

\* A source of several lines that keeps a comment and trailing whitespace.
C17_Witness ==
    /\ MethodsReturned
    /\ \E i \in 1..Len(methods) :
        /\ ItemOf(i).header = "commented"
        /\ ItemOf(i).end_lineno > ItemOf(i).lineno
        /\ Contains(methods[i].source, <<":", " ", "# c", " ", "\n", " ", " ", "pass">>)

\* A method without a reported end line has its def line as source.
C17_WitnessNoEndLine ==
    /\ MethodsReturned
    /\ \E i \in 1..Len(methods) :
        /\ ItemOf(i).end = "unreported"
        /\ methods[i].source = source_lines[methods[i].line_number]

\* The line of the colon that opens the body of a method.
DeclarationEnd(item) == item.lineno + Len(HeaderLines(item)) - 1

\* Lines a to b of the buffer, each right-stripped, joined by line breaks.
RECURSIVE TrimmedLines(_, _)
TrimmedLines(a, b) ==
    IF a > b THEN <<>>
    ELSE IF a = b THEN RStrip(source_lines[a])
    ELSE RStrip(source_lines[a]) \o <<"\n">> \o TrimmedLines(a + 1, b)

\* C18: signature is the buffer lines from the def line to the line that
\* completes the declaration, or to the tenth line when the declaration is
\* longer, each with its trailing whitespace trimmed (the indentation of
\* the def line apart); it holds no line of the body.
C18_SignatureEndsWithDeclaration ==
    \A i \in 1..Len(methods) :
        LET item == ItemOf(i)
            last == Min(DeclarationEnd(item), item.lineno + SignatureScanLimit - 1)
        IN methods[i].signature = LStrip(TrimmedLines(item.lineno, last))

\* The signature never has more than ten lines.
SignatureWithinLimit ==
    \A i \in 1..Len(methods) :
        Len(SplitLines(methods[i].signature)) <= SignatureScanLimit

\* C14: the scans of one directory, made one after the other with the
\* files unchanged, all give the same outcome: the same agents in the same
\* order.
C14_ScanIdempotent ==
    \A a, b \in 1..Len(results) : results[a] = results[b]

C14_Witness ==
    /\ Len(results) = 2
    /\ results[1].raised = "None"
    /\ Len(results[1].agents) >= 2
    /\ results[2].agents = results[1].agents

\* The segments of a path below the root.
BelowRoot(py_file) ==
    SubSeq(py_file.path, Len(directory.parts) + 1, Len(py_file.path))

\* A __pycache__ segment lies on the path below the root.
InPycacheBelowRoot(py_file) ==
    \E n \in 1..Len(BelowRoot(py_file)) : BelowRoot(py_file)[n] = "__pycache__"

\* The agents of the first k files, those below a __pycache__ directory of
\* the root left out, in traversal order.
RECURSIVE AgentsOutsidePycache(_)
AgentsOutsidePycache(k) ==
    IF k = 0 THEN <<>>
    ELSE AgentsOutsidePycache(k - 1) \o
         (IF InPycacheBelowRoot(directory.py_files[k]) THEN <<>>
          ELSE ExtractAgentInfoFromAst(directory.py_files[k], manifest_files).agents)

\* C15: the scan returns the agents of exactly the .py files under the
\* root that have no __pycache__ segment on their path below the root.
C15_PycacheBelowRootExcluded ==
    (pc = "dir_returned" /\ directory.kind = "directory") =>
        agents = AgentsOutsidePycache(Len(directory.py_files))

\* A file in a __pycache__ directory below the root gives no agent, and the
\* files outside of it do.
PycacheSubdirectorySkipped ==
    (pc = "dir_returned" /\ directory.kind = "directory"
        /\ ~InPycache([path |-> directory.parts])) =>
        agents = AgentsOutsidePycache(Len(directory.py_files))

(***************************************************************************)
(* The two entry points together.                                          *)
(***************************************************************************)
InitScan == InitFile \/ InitDir

NextScan == NextFile \/ NextDir

SpecScan == InitScan /\ [][NextScan]_vars

\* C16: a root that is missing or no directory, and a path that is missing
\* or no file, give the empty list; no exception leaves the scan and no
\* file is read.
C16_MissingPathsGiveEmpty ==
    /\ directory.kind \in {"missing", "file"} =>
        /\ pc \in {"scan_dir", "dir_returned"}
        /\ raised = "None"
        /\ agents = <<>>
        /\ file_path.kind = "none"
        /\ file_i = 0
        /\ \A a \in 1..Len(results) : results[a] = Outcome("None", <<>>)
    /\ (directory.kind = "none" /\ file_path.kind \in {"missing", "directory"}) =>
        /\ pc \in {"scan_file", "file_returned"}
        /\ raised = "None"
        /\ agents = <<>>
        /\ source_lines = <<>>

C16_Witness ==
    /\ pc = "dir_returned"
    /\ directory.kind = "missing"
    /\ results = <<Outcome("None", <<>>)>>

\* The file scan of a path that is a directory has returned.
C16_WitnessFile ==
    /\ pc = "file_returned"
    /\ file_path.kind = "directory"
    /\ agents = <<>>

(***************************************************************************)
(* Properties of the inline metadata.                                      *)
(***************************************************************************)
\* An expression that refers to a base class of the class: super(), or a
\* base named in the class statement.
IsBaseReference(node, e) ==
    \/ IsCall(e) /\ IsName(e.func) /\ e.func.id = "super"
    \/ \E j \in 1..Len(node.bases) : node.bases[j] = e

\* The initializer delegations of a class that give `key` a literal: the
\* calls of __init__ on a base-class reference.
DelegationPositions(node, key) ==
    {p \in InitPositions(node, key) :
        IsBaseReference(node, node.calls[p].func.value)}

\* The value the last of them gives, otherwise the class identifier for
\* name and "" for the others.
DelegatedValue(node, key) ==
    IF DelegationPositions(node, key) # {}
    THEN PyStr(LiteralGiven(
            node.calls[CHOOSE p \in DelegationPositions(node, key) :
                          \A q \in DelegationPositions(node, key) : q <= p], key))
    ELSE IF key = "name" THEN <<node.name>> ELSE <<>>

\* The description of a class without a manifest: the value given, else
\* the first line of the docstring.
DescriptionFrom(value, node) == IF value # <<>> THEN value ELSE DocstringLine(node)

\* C19: for a class that consults no manifest, each of name, description
\* and version is the literal of the last initializer delegation, in walk
\* order, that gives the keyword a literal; without one, name is the class
\* identifier and the others are empty.
C19_LastDelegationWins ==
    FileReturned =>
        \A k \in 1..Len(file_path.classes) :
            LET node == file_path.classes[k] IN
            ~CallsLoadManifest(node) =>
                \A i \in AgentsFor(k) :
                    /\ agents[i].name = DelegatedValue(node, "name")
                    /\ agents[i].version = DelegatedValue(node, "version")
                    /\ agents[i].description =
                         DescriptionFrom(DelegatedValue(node, "description"), node)

\* C19 on the classes whose calls of an attribute __init__ are all
\* initializer delegations.
LastDelegationWinsAmongDelegations ==
    FileReturned =>
        \A k \in 1..Len(file_path.classes) :
            LET node == file_path.classes[k] IN
            (/\ ~CallsLoadManifest(node)
             /\ \A key \in MetadataKeys :
                    InitPositions(node, key) = DelegationPositions(node, key)) =>
                \A i \in AgentsFor(k) :
                    /\ agents[i].name = DelegatedValue(node, "name")
                    /\ agents[i].version = DelegatedValue(node, "version")
                    /\ agents[i].description =
                         DescriptionFrom(DelegatedValue(node, "description"), node)

\* Two delegations give name a literal and the agent has the second.
TwoDelegationsReached ==
    /\ FileReturned
    /\ \E k \in 1..Len(file_path.classes) :
        /\ Cardinality(DelegationPositions(file_path.classes[k], "name")) = 2
        /\ \E i \in AgentsFor(k) : agents[i].name = <<"N2">>

\* C20: a call of __init__ on an object that is no base-class reference
\* changes nothing: a class with such calls only, and without a manifest,
\* has its class identifier as name and an empty version.
C20_ForeignInitIgnored ==
    FileReturned =>
        \A k \in 1..Len(file_path.classes) :
            LET node == file_path.classes[k] IN
            (/\ ~CallsLoadManifest(node)
             /\ \A key \in MetadataKeys : DelegationPositions(node, key) = {}) =>
                \A i \in AgentsFor(k) :
                    /\ agents[i].name = <<node.name>>
                    /\ agents[i].version = <<>>
                    /\ agents[i].description = DocstringLine(node)

(***************************************************************************)
(* Properties of the tag attributes.                                       *)
(***************************************************************************)
\* C24: a decomposition is never read-only and a primitive has no intent
\* and no expanded intent, whatever markers the method carries.
C24_TagAttributesDoNotLeak ==
    \A i \in 1..Len(methods) :
        /\ methods[i].method_type = "decomposition" => ~methods[i].read_only
        /\ methods[i].method_type = "primitive" =>
            /\ methods[i].intent = <<>>
            /\ methods[i].expanded_intent = <<>>

\* The same for the methods that carry one capability tag.
TagAttributesOfSingleTag ==
    \A i \in 1..Len(methods) :
        Cardinality(TagPositions(ItemOf(i))) = 1 =>
            /\ methods[i].method_type = "decomposition" => ~methods[i].read_only
            /\ methods[i].method_type = "primitive" =>
                /\ methods[i].intent = <<>>
                /\ methods[i].expanded_intent = <<>>

(***************************************************************************)
(* Properties of the docstring fallback.                                   *)
(***************************************************************************)
\* The description the manifest gives a class: that of the file its
\* selected load_manifest call names, "" for a class without such a call.
ManifestDescription(node) ==
    IF CallsLoadManifest(node)
    THEN FieldOfFile(NamedManifest(SelectedCall(node), file_path.stem), "description")
    ELSE <<>>

\* The description when the docstring fallback comes first and the manifest
\* merge after it.
DescriptionFallbackFirst(node) ==
    LET inline == InlineMetadata(node)
        seeded == [inline EXCEPT
                     !.description = DocstringFallback(inline.description, node)]
        loaded == IF CallsLoadManifest(node)
                  THEN LoadManifestMetadata(file_path, ExtractManifestFilename(node),
                                            manifest_files).meta
                  ELSE EmptyMetadata
    IN MergeManifest(seeded, loaded).description

\* C21: the description of an agent is the manifest description when that
\* is non-empty, otherwise the inline description when that is non-empty,
\* and only otherwise the trimmed first line of the class docstring ("" for
\* a class without one); it is the same when the docstring fallback is
\* applied before the manifest merge.
C21_DocstringLastResort ==
    FileReturned =>
        \A k \in 1..Len(file_path.classes) :
            LET node == file_path.classes[k] IN
            \A i \in AgentsFor(k) :
                /\ agents[i].description =
                     IF ManifestDescription(node) # <<>>
                     THEN ManifestDescription(node)
                     ELSE IF InlineValue(node, "description") # <<>>
                     THEN InlineValue(node, "description")
                     ELSE DocstringLine(node)
                /\ agents[i].description = DescriptionFallbackFirst(node)

\* A class with a docstring and neither description: the docstring's first
\* line, trimmed, is the description.
C21_Witness ==
    /\ FileReturned
    /\ \E k \in 1..Len(file_path.classes) :
        LET node == file_path.classes[k] IN
        /\ node.docstring.text = <<"Doc", " ", "\n", "more">>
        /\ CallsLoadManifest(node)
        /\ ManifestDescription(node) = <<>>
        /\ InlineValue(node, "description") = <<>>
        /\ \E i \in AgentsFor(k) : agents[i].description = <<"Doc">>

\* A class with a docstring and a manifest description keeps the latter.
C21_WitnessManifestKept ==
    /\ FileReturned
    /\ \E k \in 1..Len(file_path.classes) :
        LET node == file_path.classes[k] IN
        /\ node.docstring.text = <<"Doc", " ", "\n", "more">>
        /\ ManifestDescription(node) = <<"B">>
        /\ \E i \in AgentsFor(k) : agents[i].description = <<"B">>

(***************************************************************************)
(* Properties of the selection of the load_manifest call.                  *)
(***************************************************************************)
\* The calls of the bare name load_manifest, and those of an attribute of
\* that name, by position in walk order.
UnqualifiedCalls(node) ==
    {p \in 1..Len(node.calls) :
        IsName(node.calls[p].func) /\ node.calls[p].func.id = "load_manifest"}
QualifiedCalls(node) ==
    {p \in 1..Len(node.calls) :
        IsAttribute(node.calls[p].func) /\ node.calls[p].func.attr = "load_manifest"}

FirstUnqualified(node) ==
    node.calls[CHOOSE p \in UnqualifiedCalls(node) :
                  \A q \in UnqualifiedCalls(node) : p <= q]

\* C22: a class whose load_manifest calls are all qualified has the inline
\* name and version, no manifest being looked up; otherwise the first
\* unqualified call in walk order alone names the manifest file the name
\* and version are resolved from, also when it names no literal filename
\* and a later call does.
C22_FirstUnqualifiedCallSelects ==
    FileReturned =>
        \A k \in 1..Len(file_path.classes) :
            LET node == file_path.classes[k] IN
            \A i \in AgentsFor(k) : \A key \in {"name", "version"} :
                agents[i][key] =
                    IF UnqualifiedCalls(node) = {}
                    THEN InlineValue(node, key)
                    ELSE ResolvedFrom(NamedManifest(FirstUnqualified(node),
                                                    file_path.stem), node, key)

\* Two unqualified calls, the first without a literal filename, the second
\* naming other.json: the version is that of agent.manifest.json.
C22_Witness ==
    /\ FileReturned
    /\ \E k \in 1..Len(file_path.classes) :
        LET node == file_path.classes[k] IN
        /\ Cardinality(UnqualifiedCalls(node)) = 2
        /\ \E p \in UnqualifiedCalls(node) :
            /\ Len(node.calls[p].args) >= 2
            /\ node.calls[p].args[2] = Name("var")
            /\ \E q \in UnqualifiedCalls(node) :
                /\ p < q
                /\ NamedManifest(node.calls[q], file_path.stem) = <<"other.json">>
        /\ FieldOfFile(DefaultManifestName, "version") = <<"2.0">>
        /\ \E i \in AgentsFor(k) : agents[i].version = <<"2.0">>

\* self.load_manifest(...) alone next to a manifest that gives a name: the
\* agent keeps the class identifier.
C22_WitnessQualified ==
    /\ FileReturned
    /\ \E k \in 1..Len(file_path.classes) :
        LET node == file_path.classes[k] IN
        /\ UnqualifiedCalls(node) = {}
        /\ \E p \in QualifiedCalls(node) : node.calls[p].func.value = Name("self")
        /\ FieldOfFile(DefaultManifestName, "name") = <<"ManifestName">>
        /\ \E i \in AgentsFor(k) : agents[i].name = <<node.name>>

(***************************************************************************)
(* Properties of the class walk.                                           *)
(***************************************************************************)
\* The class declarations of these statements at any depth, in document
\* order.
RECURSIVE DeclaredClasses(_)
DeclaredClasses(stmts) ==
    IF stmts = <<>> THEN <<>>
    ELSE LET s == Head(stmts) IN
         (IF s.node = "ClassDef" THEN <<s>> \o DeclaredClasses(s.body)
          ELSE IF s.node = "FunctionDef" THEN DeclaredClasses(s.body)
          ELSE <<>>)
         \o DeclaredClasses(Tail(stmts))

\* The agents of the class of this name.
AgentsNamed(name) == {i \in 1..Len(agents) : agents[i].class_name = name}

\* C23: every class declaration with a recognized base, at the top level,
\* in a class or in a function, yields exactly one agent, no other agent is
\* in the result, and the agents of the top-level classes are in document
\* order.
C23_EveryDeclaredClassOnce ==
    FileReturned /\ file_path.tree # <<>> =>
        LET declared == DeclaredClasses(file_path.tree)
            candidates == {d \in 1..Len(declared) : MatchingBases(declared[d]) # {}}
            top == file_path.tree
        IN /\ \A d \in candidates :
                Cardinality(AgentsNamed(declared[d].name)) = 1
           /\ Len(agents) = Cardinality(candidates)
           /\ \A p, q \in 1..Len(top) :
                /\ p < q
                /\ top[p].node = "ClassDef" /\ MatchingBases(top[p]) # {}
                /\ top[q].node = "ClassDef" /\ MatchingBases(top[q]) # {}
                => \A i \in AgentsNamed(top[p].name) :
                       \A j \in AgentsNamed(top[q].name) : i < j

\* A class declared inside a method of a class and a class declared inside
\* a function have their agents.
C23_Witness ==
    /\ FileReturned
    /\ Len(file_path.tree) = 2
    /\ file_path.tree[1].node = "ClassDef"
    /\ \E n \in 1..Len(file_path.tree[1].body) :
        /\ file_path.tree[1].body[n].node = "FunctionDef"
        /\ DeclaredClasses(file_path.tree[1].body[n].body) # <<>>
    /\ Len(agents) = 3
    /\ agents[1].class_name = "Outer"
    /\ agents[2].class_name = "Second"
    /\ agents[3].class_name = "Inner"

C23_WitnessInFunction ==
    /\ FileReturned
    /\ Len(file_path.tree) = 2
    /\ file_path.tree[1].node = "FunctionDef"
    /\ Len(agents) = 2
    /\ agents[1].class_name = "Second"
    /\ agents[2].class_name = "Inner"

(***************************************************************************)
(* Properties of the classes nested in an agent class.                     *)
(***************************************************************************)
\* The nodes below a class that belong to it: the walk does not go into
\* the classes declared inside it.
RECURSIVE OwnWalk(_)
OwnWalk(todo) ==
    IF todo = <<>> THEN <<>>
    ELSE <<Head(todo)>>
         \o OwnWalk(Tail(todo) \o (IF NodeKind(Head(todo)) = "ClassDef" THEN <<>>
                                   ELSE Children(Head(todo))))

\* The class with the calls that belong to it alone.
OwnPart(node) ==
    [node EXCEPT !.calls = SelectSeq(OwnWalk(Children(node)), IsCallNode)]

\* The names of the tagged methods of the classes nested in a class.
NestedTaggedNames(node) ==
    LET nested == DeclaredClasses(node.body) IN
    UNION {{nested[d].body[n].name :
                n \in {m \in 1..Len(nested[d].body) :
                         /\ nested[d].body[m].node = "FunctionDef"
                         /\ TagPositions(nested[d].body[m]) # {}}} :
           d \in 1..Len(nested)}

HasNestedClass(node) == DeclaredClasses(node.body) # <<>>

\* No tagged method of a nested class is among the methods of the agent of
\* the enclosing class.
NestedMethodsStayNested ==
    FileReturned =>
        \A k \in 1..Len(file_path.classes) :
            HasNestedClass(file_path.classes[k]) =>
                \A i \in AgentsFor(k) :
                    \A n \in 1..Len(agents[i].methods) :
                        agents[i].methods[n].name
                            \notin NestedTaggedNames(file_path.classes[k])

\* The value of a key resolved from these calls: from the manifest the first
\* unqualified load_manifest call names, otherwise the inline value.
ValueFrom(node, key) ==
    IF UnqualifiedCalls(node) = {} THEN InlineValue(node, key)
    ELSE ResolvedFrom(NamedManifest(FirstUnqualified(node), file_path.stem),
                      node, key)

\* C30: the agent of a class with nested classes has none of their tagged
\* methods, and its name, description and version are those resolved from
\* the calls that belong to the class itself.
C30_NestedClassKeptApart ==
    FileReturned =>
        \A k \in 1..Len(file_path.classes) :
            LET node == file_path.classes[k] IN
            HasNestedClass(node) =>
                \A i \in AgentsFor(k) :
                    /\ \A n \in 1..Len(agents[i].methods) :
                        agents[i].methods[n].name \notin NestedTaggedNames(node)
                    /\ agents[i].name = ValueFrom(OwnPart(node), "name")
                    /\ agents[i].version = ValueFrom(OwnPart(node), "version")
                    /\ agents[i].description =
                         IF ValueFrom(OwnPart(node), "description") # <<>>
                         THEN ValueFrom(OwnPart(node), "description")
                         ELSE DocstringLine(node)

\* An agent class with a nested class that has a tagged method and calls.
NestedClassReached ==
    /\ FileReturned
    /\ \E k \in 1..Len(file_path.classes) :
        /\ HasNestedClass(file_path.classes[k])
        /\ NestedTaggedNames(file_path.classes[k]) # {}
        /\ Len(OwnPart(file_path.classes[k]).calls) < Len(file_path.classes[k].calls)
        /\ AgentsFor(k) # {}

(***************************************************************************)
(* model_cache.py: the model-list cache.  A date is a day number.  A cache *)
(* file is missing, holds text that is no JSON, holds JSON that            *)
(* CachedModels.model_validate rejects, or holds an entry.  The threads    *)
(* are the thread workers of the settings screen that call                 *)
(* asyncio.run(fetch_models_for_provider(provider)).                       *)
(***************************************************************************)
MaxThreads == 2      \* worker threads that call the cache
MaxCalls == 2        \* calls of fetch_models_for_provider in one behavior
MaxDay == 2          \* last day the clock reaches

CachedModels(date, provider, models) ==
    [kind |-> "entry", date |-> date, provider |-> provider, models |-> models]
NoCacheFile == [kind |-> "missing"]
CorruptFile == [kind |-> "invalid json"]
ForeignJson == [kind |-> "other json"]

\* _is_cache_valid with the date left out of the comparison.
IsCacheValidAnyDate(cache_file, day) == cache_file.kind = "entry"

\* _is_cache_valid(cache_file), on the day `day`.
IsCacheValid(cache_file, day) ==
    IF cache_file.kind = "missing" THEN FALSE
    ELSE IF cache_file.kind # "entry" THEN FALSE
    ELSE cache_file.date = day

\* save_cached_models(provider, models), on the day `day`.
SaveCachedModels(files, provider, models, day) ==
    [files EXCEPT ![provider] = CachedModels(day, provider, models)]

\* The keys of the fetchers dict.
Fetchers == {"ollama", "openai", "anthropic", "fireworks", "groq"}

\* The providers the calls are made for, and the lists a fetcher returns.
Providers == {"ollama", "openai", "custom"}
ModelLists == {<<>>, <<"m2", "m1">>}

NoSave == [date |-> 0, models |-> <<>>, saved |-> FALSE]

\* A call before it starts: what it saw of the cache file when it checked
\* it and when it read it, the day of the check, and what had last been
\* saved for its provider at those two moments.
IdleCall ==
    [pc |-> "idle", provider |-> "None", models |-> <<>>, fetched |-> FALSE,
     seen |-> NoCacheFile, day |-> 0, prior |-> NoSave,
     served |-> NoCacheFile, latest |-> NoSave]

\* The cache directory when the first call is made: one file of any kind,
\* or an entry of today for every provider.
InitialFiles(p) ==
    {NoCacheFile, CorruptFile, ForeignJson, CachedModels(0, p, <<"old">>),
     CachedModels(1, p, <<>>), CachedModels(2, p, <<"m1">>)}
InitialCaches ==
    UNION {{[p \in Providers |-> IF p = q THEN f ELSE NoCacheFile] :
                f \in InitialFiles(q)} : q \in Providers}
    \cup {[p \in Providers |-> CachedModels(1, p, <<"m1">>)]}

ScannerIdle ==
    /\ pc = "idle"
    /\ MethodsIdle
    /\ FileIdle
    /\ DirIdle

InitCache ==
    /\ today = 1
    /\ cache_files \in InitialCaches
    /\ fetch_calls = [t \in 1..MaxThreads |-> IdleCall]
    /\ last_save = [p \in Providers |-> NoSave]
    /\ calls_made = 0
    /\ ScannerIdle
    /\ AppIdle
    /\ ExecIdle

notCacheVars == <<scannerVars, appVars, execVars>>

\* A thread calls fetch_models_for_provider(provider); the threads being
\* alike, the call is made by the first one that runs no call.
CacheCall(t, provider) ==
    /\ fetch_calls[t].pc \in {"idle", "returned", "raised"}
    /\ \A u \in 1..(t - 1) : fetch_calls[u].pc \notin {"idle", "returned", "raised"}
    /\ calls_made < MaxCalls
    /\ calls_made' = calls_made + 1
    /\ fetch_calls' = [fetch_calls EXCEPT
                         ![t] = [IdleCall EXCEPT !.pc = "is_cache_valid",
                                                 !.provider = provider]]
    /\ UNCHANGED <<today, cache_files, last_save, notCacheVars>>

\* get_cached_models: `if not _is_cache_valid(cache_file): return None`
CacheChecked(t) ==
    LET call == fetch_calls[t] IN
    /\ call.pc = "is_cache_valid"
    /\ fetch_calls' = [fetch_calls EXCEPT
         ![t] = [call EXCEPT
                   !.seen = cache_files[call.provider],
                   !.day = today,
                   !.prior = last_save[call.provider],
                   !.pc = IF IsCacheValid(cache_files[call.provider], today)
                          THEN "get_cached" ELSE "fetchers"]]
    /\ UNCHANGED <<today, cache_files, last_save, calls_made, notCacheVars>>

\* get_cached_models reads the file again and returns cached.models, or
\* None when the text no longer validates; `if cached is not None: return`.
CacheRead(t) ==
    LET call == fetch_calls[t]
        cache_file == cache_files[call.provider]
    IN
    /\ call.pc = "get_cached"
    /\ fetch_calls' = [fetch_calls EXCEPT
         ![t] = IF cache_file.kind = "entry"
                THEN [call EXCEPT !.served = cache_file,
                                  !.latest = last_save[call.provider],
                                  !.models = cache_file.models,
                                  !.pc = "returned"]
                ELSE [call EXCEPT !.served = cache_file, !.pc = "fetchers"]]
    /\ UNCHANGED <<today, cache_files, last_save, calls_made, notCacheVars>>

\* `if not fetcher: raise ValueError(...)`
UnknownProvider(t) ==
    /\ fetch_calls[t].pc = "fetchers"
    /\ fetch_calls[t].provider \notin Fetchers
    /\ fetch_calls' = [fetch_calls EXCEPT ![t].pc = "raised"]
    /\ UNCHANGED <<today, cache_files, last_save, calls_made, notCacheVars>>

\* `models = await fetcher()`: the fetcher is invoked.
FetcherInvoked(t) ==
    /\ fetch_calls[t].pc = "fetchers"
    /\ fetch_calls[t].provider \in Fetchers
    /\ fetch_calls' = [fetch_calls EXCEPT ![t].pc = "fetching",
                                          ![t].fetched = TRUE]
    /\ UNCHANGED <<today, cache_files, last_save, calls_made, notCacheVars>>

\* The fetcher returns a list.
FetchSucceeds(t, models) ==
    /\ fetch_calls[t].pc = "fetching"
    /\ fetch_calls' = [fetch_calls EXCEPT ![t].pc = "save",
                                          ![t].models = models]
    /\ UNCHANGED <<today, cache_files, last_save, calls_made, notCacheVars>>

\* The fetcher raises (no API key, no connection, an error status), and so
\* does fetch_models_for_provider.
FetchFails(t) ==
    /\ fetch_calls[t].pc = "fetching"
    /\ fetch_calls' = [fetch_calls EXCEPT ![t].pc = "raised"]
    /\ UNCHANGED <<today, cache_files, last_save, calls_made, notCacheVars>>

\* `save_cached_models(provider, models)` and `return models`
CacheSaved(t) ==
    LET call == fetch_calls[t] IN
    /\ call.pc = "save"
    /\ cache_files' = SaveCachedModels(cache_files, call.provider, call.models, today)
    /\ last_save' = [last_save EXCEPT
                       ![call.provider] = [date |-> today, models |-> call.models,
                                           saved |-> TRUE]]
    /\ fetch_calls' = [fetch_calls EXCEPT ![t].pc = "returned"]
    /\ UNCHANGED <<today, calls_made, notCacheVars>>

\* The date changes.
Midnight ==
    /\ today < MaxDay
    /\ today' = today + 1
    /\ UNCHANGED <<cache_files, fetch_calls, last_save, calls_made, notCacheVars>>

NextCache ==
    \/ \E t \in 1..MaxThreads, provider \in Providers : CacheCall(t, provider)
    \/ \E t \in 1..MaxThreads : CacheChecked(t)
    \/ \E t \in 1..MaxThreads : CacheRead(t)
    \/ \E t \in 1..MaxThreads : UnknownProvider(t)
    \/ \E t \in 1..MaxThreads : FetcherInvoked(t)
    \/ \E t \in 1..MaxThreads, models \in ModelLists : FetchSucceeds(t, models)
    \/ \E t \in 1..MaxThreads : FetchFails(t)
    \/ \E t \in 1..MaxThreads : CacheSaved(t)
    \/ Midnight

SpecCache == InitCache /\ [][NextCache]_vars

(***************************************************************************)
(* Properties of the model-list cache.                                     *)
(***************************************************************************)
\* The file holds an entry that validates and carries the date of `day`.
EntryOfDay(cache_file, day) ==
    /\ cache_file.kind = "entry"
    /\ cache_file.date = day

\* A call that has returned the cached list, no fetcher invoked.
ServedFromCache(call) == call.pc = "returned" /\ ~call.fetched

\* A call is served from the cache exactly when the file of its provider
\* held an entry of that day when it was checked, and then it returns the
\* models of the entry it read.
ServedIffEntryOfToday ==
    \A t \in 1..MaxThreads :
        LET call == fetch_calls[t] IN
        /\ call.pc \in {"returned", "raised"} =>
            (ServedFromCache(call) <=> EntryOfDay(call.seen, call.day))
        /\ ServedFromCache(call) =>
            /\ call.served.kind = "entry"
            /\ call.models = call.served.models

\* Otherwise the fetcher of the provider is invoked.
OtherwiseFetched ==
    \A t \in 1..MaxThreads :
        LET call == fetch_calls[t] IN
        /\ call.pc \in {"fetching", "save", "returned", "raised"}
        /\ ~EntryOfDay(call.seen, call.day)
        /\ call.provider \in Fetchers
        => call.fetched

\* A call made on the date of the last save for its provider invokes no
\* fetcher and returns the list that was saved last when it read the file.
SameDateServesSavedList ==
    \A t \in 1..MaxThreads :
        LET call == fetch_calls[t] IN
        /\ call.pc \notin {"idle", "is_cache_valid"}
        /\ call.prior.saved
        /\ call.prior.date = call.day
        => /\ ~call.fetched
           /\ call.pc \in {"get_cached", "returned"}
           /\ call.pc = "returned" =>
                /\ call.latest.saved
                /\ call.models = call.latest.models

\* A fetch that succeeds stores its list under the date of the save.
StoresUnderToday ==
    \A t \in 1..MaxThreads :
        fetch_calls[t].pc = "save" /\ fetch_calls'[t].pc = "returned" =>
            /\ fetch_calls'[t].models = fetch_calls[t].models
            /\ cache_files'[fetch_calls[t].provider] =
                 CachedModels(today, fetch_calls[t].provider, fetch_calls[t].models)

\* A call that raises leaves every cache file as it is.
FailureStoresNothing ==
    \A t \in 1..MaxThreads :
        fetch_calls'[t].pc = "raised" /\ fetch_calls[t].pc # "raised" =>
            cache_files' = cache_files

\* C28: fetch_models_for_provider returns the cached list, no fetcher
\* invoked, exactly when the cache file of the provider holds an entry that
\* validates and carries today's date; otherwise it invokes the provider's
\* fetcher, stores a fetched list under today's date and stores nothing
\* when the fetch fails; a call on the date of the last save returns the
\* saved list, an empty one included, without fetching.
C28_DailyCache ==
    /\ [](ServedIffEntryOfToday /\ OtherwiseFetched /\ SameDateServesSavedList)
    /\ [][StoresUnderToday /\ FailureStoresNothing]_vars

\* A second call on the date of a save of the empty list is served the
\* empty list without fetching.
C28_Witness ==
    \E t \in 1..MaxThreads :
        LET call == fetch_calls[t] IN
        /\ ServedFromCache(call)
        /\ call.prior.saved
        /\ call.prior.date = call.day
        /\ call.prior.models = <<>>
        /\ call.models = <<>>

\* A call the day after a save fetches again.
C28_WitnessExpired ==
    \E t \in 1..MaxThreads :
        LET call == fetch_calls[t] IN
        /\ call.pc = "returned"
        /\ call.fetched
        /\ call.prior.saved
        /\ call.prior.date < call.day
        /\ call.seen.kind = "entry"

(***************************************************************************)
(* app.py: the agent list of AgentRunnerApp.  Every handler runs on the    *)
(* event loop, one at a time.  A folder on disk is missing or holds what   *)
(* scan_directory_for_agents finds in it, which is a list of agents or an  *)
(* exception (see the directory scan above).  An agent is given by its     *)
(* class name and the number of its methods.                               *)
(***************************************************************************)
DiscoveredAgent(name, count) == [class_name |-> name, methods |-> count]

\* The value None of selected_agent.
NoAgent == DiscoveredAgent("None", 0)

Folders == {"agents", "other"}

\* What a scan of a folder that exists gives.
ScanOutcomes ==
    {<<>>,
     <<DiscoveredAgent("A", 1)>>,
     <<DiscoveredAgent("A", 1), DiscoveredAgent("B", 0)>>,
     <<DiscoveredAgent("C", 2)>>}

FolderStates ==
    {[kind |-> "missing", found |-> <<>>], [kind |-> "raises", found |-> <<>>]}
    \cup {[kind |-> "scanned", found |-> found] : found \in ScanOutcomes}

NothingOpened == [agent |-> NoAgent, listed |-> TRUE]
NeverScanned == [returned |-> FALSE, result |-> <<>>]

\* The application after __init__, with the settings Settings.load() gave.
InitApp ==
    /\ settings \in {"None"} \cup Folders
    /\ folders \in [Folders -> FolderStates]
    /\ app_agents = <<>>
    /\ selected_agent = NoAgent
    /\ agent_list = <<>>
    /\ last_scan = NeverScanned
    /\ opened = NothingOpened
    /\ pc = "on_mount"
    /\ MethodsIdle
    /\ FileIdle
    /\ DirIdle
    /\ CacheIdle
    /\ ExecIdle

notAppVars == <<scanLocals, cacheVars, execVars>>

\* _scan_agents while the settings name the folder `folder`: the values of
\* self.agents, self.selected_agent and of the list view when it returns,
\* and whether it returns at all.
ScanAgents(folder) ==
    IF folder = "None" THEN [returned |-> TRUE, agents |-> app_agents,
                             selected |-> selected_agent, list |-> <<>>]
    ELSE IF folders[folder].kind = "missing"
    THEN [returned |-> TRUE, agents |-> app_agents,
          selected |-> selected_agent, list |-> <<>>]
    ELSE IF folders[folder].kind = "raises"
    THEN [returned |-> FALSE, agents |-> app_agents,
          selected |-> selected_agent, list |-> <<>>]
    ELSE IF folders[folder].found = <<>>
    THEN [returned |-> TRUE, agents |-> <<>>,
          selected |-> selected_agent, list |-> <<>>]
    ELSE [returned |-> TRUE, agents |-> folders[folder].found,
          selected |-> folders[folder].found[1], list |-> folders[folder].found]

\* What scan_directory_for_agents gives for the configured folder: nothing
\* without a folder or with a missing one.
ScanResult(folder) ==
    IF folder = "None" THEN <<>> ELSE folders[folder].found

\* The assignments of a run of _scan_agents; an exception of the scan
\* leaves the handler and ends the application.
RunScanAgents(folder) ==
    LET scan == ScanAgents(folder) IN
    /\ app_agents' = scan.agents
    /\ selected_agent' = scan.selected
    /\ agent_list' = scan.list
    /\ last_scan' = IF scan.returned
                    THEN [returned |-> TRUE, result |-> ScanResult(folder)]
                    ELSE last_scan
    /\ pc' = IF scan.returned THEN "running" ELSE "crashed"

\* on_mount
Mount ==
    /\ pc = "on_mount"
    /\ RunScanAgents(settings)
    /\ UNCHANGED <<settings, folders, opened, notAppVars>>

\* action_refresh
ActionRefresh ==
    /\ pc = "running"
    /\ RunScanAgents(settings)
    /\ UNCHANGED <<settings, folders, opened, notAppVars>>

\* _on_settings_closed(settings) with the settings of the Save button.
SettingsSaved(folder) ==
    /\ pc = "running"
    /\ settings' = folder
    /\ RunScanAgents(folder)
    /\ UNCHANGED <<folders, opened, notAppVars>>

\* _on_settings_closed(None): the settings screen was cancelled.
SettingsCancelled ==
    /\ pc = "running"
    /\ UNCHANGED <<pc, appVars, notAppVars>>

\* on_list_view_highlighted and on_list_view_selected for an item of the
\* list view.
ListViewHighlighted(i) ==
    /\ pc = "running"
    /\ i \in 1..Len(agent_list)
    /\ selected_agent' = agent_list[i]
    /\ UNCHANGED <<pc, settings, folders, app_agents, agent_list, last_scan,
                   opened, notAppVars>>

\* action_details
ActionDetails ==
    /\ pc = "running"
    /\ opened' = IF selected_agent = NoAgent THEN opened
                 ELSE IF selected_agent.methods = 0 THEN opened
                 ELSE [agent |-> selected_agent,
                       listed |-> \E i \in 1..Len(agent_list) :
                                      agent_list[i] = selected_agent]
    /\ UNCHANGED <<pc, settings, folders, app_agents, selected_agent, agent_list,
                   last_scan, notAppVars>>

\* The folder on disk changes between two handlers.
FolderChanges(folder, state) ==
    /\ pc = "running"
    /\ folders[folder] # state
    /\ folders' = [folders EXCEPT ![folder] = state]
    /\ UNCHANGED <<pc, settings, app_agents, selected_agent, agent_list,
                   last_scan, opened, notAppVars>>

NextApp ==
    \/ Mount
    \/ ActionRefresh
    \/ \E folder \in {"None"} \cup Folders : SettingsSaved(folder)
    \/ SettingsCancelled
    \/ \E i \in 1..2 : ListViewHighlighted(i)
    \/ ActionDetails
    \/ \E folder \in Folders, state \in FolderStates : FolderChanges(folder, state)

SpecApp == InitApp /\ [][NextApp]_vars

(***************************************************************************)
(* Properties of the agent list of the application.                        *)
(***************************************************************************)
IsListed(agent) == \E i \in 1..Len(app_agents) : app_agents[i] = agent

\* C29: once _scan_agents has returned, selected_agent is None or an
\* element of self.agents, self.agents is what the most recent scan gave
\* (nothing without a folder or with a missing folder), and the details
\* screen is only opened with an agent of the list view.
C29_SelectionWithinCurrentScan ==
    pc = "running" =>
        /\ selected_agent = NoAgent \/ IsListed(selected_agent)
        /\ app_agents = last_scan.result
        /\ opened.listed

\* After a scan that found agents, self.agents and the list view hold them
\* and the selection is within them.
SelectionWithinNonEmptyScan ==
    pc = "running" /\ last_scan.result # <<>> =>
        /\ app_agents = last_scan.result
        /\ agent_list = app_agents
        /\ IsListed(selected_agent)

NonEmptyScanReached ==
    /\ pc = "running"
    /\ Len(last_scan.result) = 2
    /\ selected_agent = last_scan.result[2]

(***************************************************************************)
(* screens/agent_execution.py: AgentExecutionScreen.  The handlers and the *)
(* coroutine _execute_query run on the event loop, one at a time; the      *)
(* agent's run method runs in a thread of a thread pool and calls          *)
(* _handle_mutation there.  A threading.Event is given by a number (0 is   *)
(* None), which is also the number of the mutation it was made for.        *)
(***************************************************************************)
MaxQueries == 3      \* queries submitted on one screen
MaxMutations == 2    \* mutations the agent runs of one screen ask approval for

NotLoaded == "None"
RejectionReason == "User aborted the mutation"

\* A submitted query: its text, the worker started for it and the thread
\* of that worker, with the values of _loading and agent_instance found
\* when it was submitted.
Submitted(text, worker) ==
    [text |-> text, worker |-> worker, thread |-> "none", outcome |-> "none",
     mutation |-> 0, waits_on |-> 0,
     loading_before |-> loading, instance_before |-> agent_instance]

\* A mutation the agent asked approval for: the query it belongs to, the
\* answer the dialog was given and what _handle_mutation returned.
Mutation(q) == [query |-> q, answer |-> "unanswered", returned |-> "pending"]

\* The screen after on_mount: _load_agent has set agent_instance or not.
InitExec ==
    /\ agent_instance \in {NotLoaded, "agent"}
    /\ loading = FALSE
    /\ queries = <<>>
    /\ mutation_event = 0
    /\ mutation_approved = FALSE
    /\ events = {}
    /\ callbacks = <<>>
    /\ dialogs = <<>>
    /\ mutations = <<>>
    /\ ScannerIdle
    /\ CacheIdle
    /\ AppIdle

notExecVars == <<scannerVars, cacheVars, appVars>>
handshakeVars == <<mutation_event, mutation_approved, events, callbacks,
                   dialogs, mutations>>

\* on_input_submitted without the `if self._loading: return` guard.
InputSubmittedUnguarded(text) ==
    /\ Len(queries) < MaxQueries
    /\ IF text \in {"", "/plan"}
       THEN UNCHANGED <<queries, loading>>
       ELSE IF agent_instance = NotLoaded
       THEN /\ queries' = Append(queries, Submitted(text, "none"))
            /\ UNCHANGED loading
       ELSE /\ loading' = TRUE
            /\ queries' = Append(queries, Submitted(text, "scheduled"))
    /\ UNCHANGED <<agent_instance, handshakeVars, notExecVars>>

\* on_input_submitted for the query input: an empty text and a command
\* return early and leave the execution state alone; a query starts a
\* worker unless the agent is not loaded or a query is being executed.
InputSubmitted(text) ==
    /\ Len(queries) < MaxQueries
    /\ IF text \in {"", "/plan"}
       THEN UNCHANGED <<queries, loading>>
       ELSE IF agent_instance = NotLoaded \/ loading
       THEN /\ queries' = Append(queries, Submitted(text, "none"))
            /\ UNCHANGED loading
       ELSE /\ loading' = TRUE
            /\ queries' = Append(queries, Submitted(text, "scheduled"))
    /\ UNCHANGED <<agent_instance, handshakeVars, notExecVars>>

\* _execute_query up to `await self._run_in_thread(...)`: the agent run is
\* handed to a thread.
WorkerStarts(q) ==
    /\ queries[q].worker = "scheduled"
    /\ queries' = [queries EXCEPT ![q].worker = "awaiting", ![q].thread = "run"]
    /\ UNCHANGED <<agent_instance, loading, handshakeVars, notExecVars>>

\* _execute_query after the await with `finally` taken only when no
\* exception was raised.
WorkerFinishesWithoutFinally(q) ==
    /\ queries[q].worker = "awaiting"
    /\ queries[q].thread = "finished"
    /\ loading' = IF queries[q].outcome = "raises" THEN loading ELSE FALSE
    /\ queries' = [queries EXCEPT ![q].worker = "done"]
    /\ UNCHANGED <<agent_instance, handshakeVars, notExecVars>>

\* _execute_query after the await: the result or the exception is shown
\* and `finally` resets _loading.
WorkerFinishes(q) ==
    /\ queries[q].worker = "awaiting"
    /\ queries[q].thread = "finished"
    /\ loading' = FALSE
    /\ queries' = [queries EXCEPT ![q].worker = "done"]
    /\ UNCHANGED <<agent_instance, handshakeVars, notExecVars>>

\* _handle_mutation with the Event of the mutation before kept.
AgentMutatesSameEvent(q) ==
    /\ queries[q].thread = "run"
    /\ Len(mutations) < MaxMutations
    /\ mutations' = Append(mutations, Mutation(q))
    /\ mutation_event' = IF mutation_event = 0 THEN 1 ELSE mutation_event
    /\ queries' = [queries EXCEPT ![q].thread = "hm_reset",
                                  ![q].mutation = Len(mutations) + 1]
    /\ UNCHANGED <<agent_instance, loading, mutation_approved, events, callbacks,
                   dialogs, notExecVars>>

\* The agent run calls config.on_mutation, that is _handle_mutation:
\* `self._mutation_event = threading.Event()`
AgentMutates(q) ==
    /\ queries[q].thread = "run"
    /\ Len(mutations) < MaxMutations
    /\ mutations' = Append(mutations, Mutation(q))
    /\ mutation_event' = Len(mutations) + 1
    /\ queries' = [queries EXCEPT ![q].thread = "hm_reset",
                                  ![q].mutation = Len(mutations) + 1]
    /\ UNCHANGED <<agent_instance, loading, mutation_approved, events, callbacks,
                   dialogs, notExecVars>>

\* `self._mutation_approved = False`
HandleMutationResets(q) ==
    /\ queries[q].thread = "hm_reset"
    /\ mutation_approved' = FALSE
    /\ queries' = [queries EXCEPT ![q].thread = "hm_call"]
    /\ UNCHANGED <<agent_instance, loading, mutation_event, events, callbacks,
                   dialogs, mutations, notExecVars>>

\* `self.app.call_from_thread(self._show_mutation_dialog, context)`: the
\* callback is handed to the event loop and the thread waits for it to run.
HandleMutationCalls(q) ==
    /\ queries[q].thread = "hm_call"
    /\ callbacks' = Append(callbacks, queries[q].mutation)
    /\ queries' = [queries EXCEPT ![q].thread = "hm_called"]
    /\ UNCHANGED <<agent_instance, loading, mutation_event, mutation_approved,
                   events, dialogs, mutations, notExecVars>>

\* _show_mutation_dialog on the event loop: the dialog is pushed, and
\* call_from_thread returns in the thread.
ShowMutationDialog ==
    /\ callbacks # <<>>
    /\ dialogs' = Append(dialogs, Head(callbacks))
    /\ callbacks' = Tail(callbacks)
    /\ queries' = [q \in 1..Len(queries) |->
                     IF /\ queries[q].thread = "hm_called"
                        /\ queries[q].mutation = Head(callbacks)
                     THEN [queries[q] EXCEPT !.thread = "hm_shown"]
                     ELSE queries[q]]
    /\ UNCHANGED <<agent_instance, loading, mutation_event, mutation_approved,
                   events, mutations, notExecVars>>

\* `self._mutation_event.wait()`: the attribute is read and the thread
\* blocks on that Event.
HandleMutationWaits(q) ==
    /\ queries[q].thread = "hm_shown"
    /\ queries' = [queries EXCEPT ![q].thread = "hm_wait",
                                  ![q].waits_on = mutation_event]
    /\ UNCHANGED <<agent_instance, loading, handshakeVars, notExecVars>>

\* The Event is set and wait() returns.
HandleMutationWakes(q) ==
    /\ queries[q].thread = "hm_wait"
    /\ queries[q].waits_on \in events
    /\ queries' = [queries EXCEPT ![q].thread = "hm_read"]
    /\ UNCHANGED <<agent_instance, loading, handshakeVars, notExecVars>>

\* `if self._mutation_approved: return None` / `return "User aborted..."`
HandleMutationReturns(q) ==
    /\ queries[q].thread = "hm_read"
    /\ mutations' = [mutations EXCEPT
         ![queries[q].mutation].returned =
             IF mutation_approved THEN "None" ELSE RejectionReason]
    /\ queries' = [queries EXCEPT ![q].thread = "run"]
    /\ UNCHANGED <<agent_instance, loading, mutation_event, mutation_approved,
                   events, callbacks, dialogs, notExecVars>>

\* The dialog on top of the screen stack is answered: Continue dismisses it
\* with True, Abort with False, and it can be dismissed with None.
\* _on_mutation_response(approved) runs on the event loop.
MutationAnswered(approved) ==
    /\ dialogs # <<>>
    /\ dialogs' = SubSeq(dialogs, 1, Len(dialogs) - 1)
    /\ mutations' = [mutations EXCEPT ![dialogs[Len(dialogs)]].answer = approved]
    /\ mutation_approved' = (approved = "True")
    /\ events' = IF mutation_event # 0 THEN events \cup {mutation_event} ELSE events
    /\ UNCHANGED <<agent_instance, loading, queries, mutation_event, callbacks,
                   notExecVars>>

\* agent_instance.run(query) returns a successful result, returns a failed
\* result, or raises.
AgentReturns(q, outcome) ==
    /\ queries[q].thread = "run"
    /\ queries' = [queries EXCEPT ![q].thread = "finished",
                                  ![q].outcome = outcome]
    /\ UNCHANGED <<agent_instance, loading, handshakeVars, notExecVars>>

Texts == {"", "/plan", "query"}
Outcomes == {"success", "failed", "raises"}
Answers == {"True", "False", "None"}

NextExec ==
    \/ \E text \in Texts : InputSubmitted(text)
    \/ \E q \in 1..Len(queries) : WorkerStarts(q)
    \/ \E q \in 1..Len(queries) : AgentMutates(q)
    \/ \E q \in 1..Len(queries) : HandleMutationResets(q)
    \/ \E q \in 1..Len(queries) : HandleMutationCalls(q)
    \/ ShowMutationDialog
    \/ \E q \in 1..Len(queries) : HandleMutationWaits(q)
    \/ \E approved \in Answers : MutationAnswered(approved)
    \/ \E q \in 1..Len(queries) : HandleMutationWakes(q)
    \/ \E q \in 1..Len(queries) : HandleMutationReturns(q)
    \/ \E q \in 1..Len(queries), outcome \in Outcomes : AgentReturns(q, outcome)
    \/ \E q \in 1..Len(queries) : WorkerFinishes(q)

SpecExec == InitExec /\ [][NextExec]_vars

\* The thread pool and the event loop run every step that is ready, every
\* agent run ends, and every dialog that is open is answered.  Nothing
\* makes the user submit an input.
ExecFairness ==
    /\ WF_vars(\E q \in 1..Len(queries) : WorkerStarts(q))
    /\ WF_vars(\E q \in 1..Len(queries) : HandleMutationResets(q))
    /\ WF_vars(\E q \in 1..Len(queries) : HandleMutationCalls(q))
    /\ WF_vars(ShowMutationDialog)
    /\ WF_vars(\E q \in 1..Len(queries) : HandleMutationWaits(q))
    /\ WF_vars(\E approved \in Answers : MutationAnswered(approved))
    /\ WF_vars(\E q \in 1..Len(queries) : HandleMutationWakes(q))
    /\ WF_vars(\E q \in 1..Len(queries) : HandleMutationReturns(q))
    /\ WF_vars(\E q \in 1..Len(queries), outcome \in Outcomes : AgentReturns(q, outcome))
    /\ WF_vars(\E q \in 1..Len(queries) : WorkerFinishes(q))

SpecExecFair == SpecExec /\ ExecFairness

(***************************************************************************)
(* C25                                                                     *)
(***************************************************************************)
\* The queries whose worker has been started and has not ended.
Executing == {q \in 1..Len(queries) : queries[q].worker \in {"scheduled", "awaiting"}}

\* C25: at most one query executes at a time on the screen: in every
\* interleaving of submissions and completions there is never more than one
\* worker, a query submitted while _loading is true starts no worker (it is
\* dropped), and a query submitted while agent_instance is None starts no
\* worker and leaves _loading false.
C25_OneQueryAtATime ==
    /\ Cardinality(Executing) <= 1
    /\ \A q \in 1..Len(queries) :
         /\ queries[q].loading_before => queries[q].worker = "none"
         /\ queries[q].instance_before = NotLoaded =>
                queries[q].worker = "none" /\ ~loading

\* A query is dropped while the one before it is being executed, and the
\* one after the execution gets a worker again.
C25_Witness ==
    \E q1, q2, q3 \in 1..Len(queries) :
        /\ q1 < q2 /\ q2 < q3
        /\ queries[q1].text = "query" /\ queries[q1].worker = "done"
        /\ queries[q2].text = "query" /\ queries[q2].loading_before
        /\ queries[q2].worker = "none"
        /\ queries[q3].text = "query" /\ queries[q3].worker = "awaiting"

\* A query is submitted on a screen whose agent could not be loaded.
C25_WitnessNotLoaded ==
    \E q \in 1..Len(queries) :
        /\ queries[q].text = "query"
        /\ queries[q].instance_before = NotLoaded

(***************************************************************************)
(* C27                                                                     *)
(***************************************************************************)
\* C27: _handle_mutation does not return before the dialog opened for its
\* mutation was answered, it returns None exactly when that answer was
\* Continue (True), and False, None and an approval of an earlier mutation
\* all yield the rejection string.
C27_MutationHandshake ==
    \A m \in 1..Len(mutations) :
        mutations[m].returned # "pending" =>
            /\ mutations[m].answer # "unanswered"
            /\ mutations[m].returned = "None" <=> mutations[m].answer = "True"
            /\ mutations[m].returned # "None" => mutations[m].returned = RejectionReason

\* One agent run asks twice: the first mutation is approved and allowed,
\* the second is not approved and is rejected.
C27_Witness ==
    \E m1, m2 \in 1..Len(mutations) :
        /\ m1 < m2
        /\ mutations[m1].query = mutations[m2].query
        /\ mutations[m1].answer = "True" /\ mutations[m1].returned = "None"
        /\ mutations[m2].answer \in {"False", "None"}
        /\ mutations[m2].returned = RejectionReason

(***************************************************************************)
(* C26                                                                     *)
(***************************************************************************)
\* C26: every query execution that was started eventually ends with
\* _loading reset to False, whatever the agent run does (a successful
\* result, a failed result, an exception), given that every mutation dialog
\* it opens is answered.
C26_LoadingEventuallyReset ==
    \A q \in 1..MaxQueries :
        (q <= Len(queries) /\ queries[q].worker = "scheduled")
            ~> (q <= Len(queries) /\ queries[q].worker = "done" /\ ~loading)

\* After an execution that ended with an exception, a later query was
\* executed as well.
C26_Witness ==
    \E q1, q2 \in 1..Len(queries) :
        /\ q1 < q2
        /\ queries[q1].worker = "done" /\ queries[q1].outcome = "raises"
        /\ queries[q2].worker = "done"
        /\ ~loading

\* Executions ended after a successful and after a failed result.
C26_WitnessResults ==
    \E q1, q2 \in 1..Len(queries) :
        /\ queries[q1].worker = "done" /\ queries[q1].outcome = "success"
        /\ queries[q2].worker = "done" /\ queries[q2].outcome = "failed"
        /\ ~loading

====
